---- MODULE Spec2Model ----
(***************************************************************************)
(* Access-control and resource-ownership model of the project-management   *)
(* REST backend (server/routers, server/crud, server/dependencies.py).      *)
(*                                                                         *)
(* The relational store is a set of tables (functions from the ids of the  *)
(* existing rows to rows).  One HTTP request is followed step by step, one *)
(* step per repository call (every crud function runs its statement on a   *)
(* connection of its own, db_utils.execute_query), while other requests    *)
(* run to completion between two of its steps.  A handler is an operator   *)
(* from (store, request) to (store, request) that performs the step the    *)
(* request's pc names; the action of a handler applies it.                 *)
(***************************************************************************)
EXTENDS Integers, FiniteSets, Sequences, TLC

\* ------------------------------------------------------------------ bounds
MaxRequests == 2       \* requests served in one behaviour
MaxUser == 5           \* user ids 1..MaxUser (1..4 seeded, the rest registrable)
MaxId == 2             \* path and payload ids of projects, sprints, issues and records range over 1..MaxId (1 seeded)
PoolSize == 2          \* connections of the pool (pool_size=10 in db_utils.init_db_pool)
MaxInFlight == 3       \* requests in flight at once in the pool's specification

VARIABLES
    users,      \* User table:    user_id    -> [username, email, role, pw]
    projects,   \* Project table: project_id -> [owner_id]
    sprints,    \* Sprint table:  sprint_id  -> [project_id]
    issues,     \* Issue table:   issue_id   -> [project_id, sprint_id, reporter_id, assignee_id, status, description]
    comments,   \* Comment table: comment_id -> [issue_id, user_id, comment_text]
    worklogs,   \* Worklog table: worklog_id -> [issue_id, user_id, hours_logged]
    attachments,\* Attachment table: attachment_id -> [issue_id, user_id, file_path]
    files,      \* names of the files in the upload directory
    next_id,    \* AUTO_INCREMENT counters of the tables
    tokens,     \* user ids for which a signed, unexpired access token is in circulation
    req,        \* the request being followed
    served,     \* number of requests received so far
    connection_pool, \* db_utils.connection_pool: "None" or "pool"
    free,       \* connections in the queue of the pool object
    dropped,    \* connections taken from the queue that no frame refers to any more
    lifespan_pc,\* main.lifespan: "startup", "serving" or "shutdown"
    inflight    \* the pool's specification: slot -> the request in flight there

pvars == <<connection_pool, free, dropped, lifespan_pc, inflight>>

vars == <<users, projects, sprints, issues, comments, worklogs, attachments, files, next_id, tokens, req, served,
          connection_pool, free, dropped, lifespan_pc, inflight>>

\* The store as one value, so that a handler step is a function of it.
DB ==
    [users |-> users, projects |-> projects, sprints |-> sprints, issues |-> issues,
     comments |-> comments, worklogs |-> worklogs, attachments |-> attachments,
     files |-> files, next_id |-> next_id, tokens |-> tokens]

Ret(db, rq) == [db |-> db, rq |-> rq]

\* raise HTTPException(status_code=code) / return with status code
Respond(db, rq, code) == Ret(db, [rq EXCEPT !.pc = "done", !.status = code])

\* DELETE FROM t WHERE the id is in gone.
Delete(t, gone) == [k \in DOMAIN t \ gone |-> t[k]]

\* Insert of one row.
Insert(t, k, row) == [x \in DOMAIN t \cup {k} |-> IF x = k THEN row ELSE t[x]]

\* ------------------------------------------------------------ the request
\* Response codes of the routers (fastapi.status).
OK == 200
CREATED == 201
NO_CONTENT == 204
BAD_REQUEST == 400
UNAUTHORIZED == 401
FORBIDDEN == 403
NOT_FOUND == 404
UNPROCESSABLE == 422
SERVER_ERROR == 500

\* The msg of a mysql.connector.Error: of the SIGNAL by which a procedure or
\* trigger rejects a call (fault "reject"), and of an error that no rule
\* accounts for (faults "dberror", "guard_dberror").
ErrMsg == "Lost connection to MySQL server during query"

ProcedureMsg(fault) ==
    IF fault = "reject" THEN "Sprint does not belong to the project of the issue" ELSE ErrMsg

\* main.mysql_exception_handler: a MySQLError that leaves a route or a
\* dependency is answered 500 with f"A database error occurred: {exc.msg}".
mysql_exception_handler(db, rq, msg) ==
    Respond(db, [rq EXCEPT !.detail = <<"A database error occurred: ", msg>>], SERVER_ERROR)

\* except ValueError as ve: HTTPException(400, detail=str(ve)), with the
\* ValueError(f"Failed to ...: {err.msg}") that the crud function has made
\* of the mysql.connector.Error.
ValueErrorResponse(db, rq, prefix) ==
    Respond(db, [rq EXCEPT !.detail = <<prefix, ProcedureMsg(rq.fault)>>], BAD_REQUEST)

\* The re-read that follows a committed creation fails (fault "reread": no
\* connection to be had, ConnectionError): the rollback in the except branch
\* of the crud function comes after the commit and undoes nothing, and the
\* route's except Exception answers 500.
RereadFailed(db, rq) ==
    Respond(db, [rq EXCEPT !.detail = <<"An internal error occurred.">>], SERVER_ERROR)

NoTok == [kind |-> "none", uid |-> 0]

\* hours_logged of a worklog payload, v in thousandths of an hour: Field(gt=0)
\* and the validator accept v > 0, and the validator returns round(v, 2),
\* the value in hundredths of an hour that is stored.
HoursValid(v) == v > 0

Round2(v) == (v + 5) \div 10

creator_id_FromPayload(current_user_id, payload_id) ==
    IF payload_id # 0 THEN payload_id ELSE current_user_id

\* The user id that a creation stores as reporter, owner or author: the
\* routes pass current_user.user_id to the crud function, whose parameters
\* take it and not the reporter_id, owner_id or user_id of the payload.
creator_id(current_user_id, payload_id) == current_user_id

\* A request as the framework hands it to the route: the operation, the
\* Authorization header (tok), a User object sent in the request body (b_uid,
\* b_role; 0 when the body has none), the id of the path or payload (id), the
\* payload's value (val), the payload's strings (name, email, password), the
\* answer of a stored procedure to its call (fault).  The rest is the
\* request's own state: its position (pc), the principal (uid, role), the rows
\* its guard has read (l_*), whether it has called the repository (touched) or
\* executed a data-changing statement (wrote), the id of the row it has
\* created (l_new), the projects whose data (data) and the users whose records
\* (udata) its response carries, the user and issue rows its statements have
\* changed (w_users, w_issues, w_attachments), whether the user of its token had been removed
\* when it was received (stale) and the response: its status, the detail of
\* its body, a text in its parts, and its extra headers (detail, headers;
\* empty where not followed).
NewRq(op, tok, id, val) ==
    [op |-> op, tok |-> tok, b_uid |-> 0, b_role |-> "none", id |-> id, val |-> val,
     name |-> "", email |-> "", password |-> "", fault |-> "ok",
     pc |-> "start", uid |-> 0, role |-> "none", status |-> 0,
     touched |-> FALSE, wrote |-> FALSE, data |-> {}, udata |-> {},
     w_users |-> {}, w_issues |-> {}, w_attachments |-> {}, stale |-> FALSE, detail |-> <<>>, headers |-> "",
     l_file |-> 0, fields |-> {}, query |-> <<>>, p_uid |-> 0, p_role |-> "none",
     l_issue |-> FALSE, l_pid |-> 0, l_rep |-> 0, l_asg |-> 0,
     l_proj |-> FALSE, l_owner |-> 0,
     l_rec |-> FALSE, l_author |-> 0, l_iid |-> 0, l_new |-> 0,
     l_hours |-> 0, l_total |-> 0]

Idle == [NewRq("idle", NoTok, 0, 0) EXCEPT !.pc = "idle"]


\* ------------------------------------------------------------- the store
\* crud/issue.py get_issue_by_id: Issue JOIN Project, so an issue row whose
\* project row is gone is not returned.
HasIssue(db, i) == i \in DOMAIN db.issues /\ db.issues[i].project_id \in DOMAIN db.projects

HasProject(db, p) == p \in DOMAIN db.projects

\* DELETE FROM Issue: ON DELETE CASCADE removes the comments, worklogs and
\* attachment rows (the uploaded files stay on disk).
DeleteIssues(db, gone) ==
    [db EXCEPT !.issues = Delete(db.issues, gone),
               !.comments = Delete(db.comments, {c \in DOMAIN db.comments : db.comments[c].issue_id \in gone}),
               !.worklogs = Delete(db.worklogs, {w \in DOMAIN db.worklogs : db.worklogs[w].issue_id \in gone}),
               !.attachments = Delete(db.attachments, {a \in DOMAIN db.attachments : db.attachments[a].issue_id \in gone})]

\* DELETE FROM Sprint: ON DELETE SET NULL on Issue.sprint_id.
DeleteSprints(db, gone) ==
    [db EXCEPT !.sprints = Delete(db.sprints, gone),
               !.issues = [i \in DOMAIN db.issues |->
                             IF db.issues[i].sprint_id \in gone
                             THEN [db.issues[i] EXCEPT !.sprint_id = 0] ELSE db.issues[i]]]

\* DELETE FROM Project: ON DELETE CASCADE removes its sprints and issues.
DeleteProject(db, p) ==
    LET d1 == [db EXCEPT !.projects = Delete(db.projects, {p})]
        d2 == DeleteSprints(d1, {s \in DOMAIN d1.sprints : d1.sprints[s].project_id = p})
    IN  DeleteIssues(d2, {i \in DOMAIN d2.issues : d2.issues[i].project_id = p})

\* ------------------------------------------------------ dependencies.py
\* get_current_user: decode the token (no header, a bad signature and an
\* expired token all raise 401 with no repository call), then re-fetch the
\* user row by the token's user_id.
get_current_user(db, rq) ==
    IF rq.tok.kind # "valid"
    THEN Respond(db, rq, UNAUTHORIZED)
    ELSE IF rq.tok.uid \notin DOMAIN db.users
         THEN Respond(db, [rq EXCEPT !.touched = TRUE], UNAUTHORIZED)
         ELSE Ret(db, [rq EXCEPT !.touched = TRUE, !.uid = rq.tok.uid,
                                 !.role = db.users[rq.tok.uid].role, !.pc = "body"])

\* ------------------------------------------------------ routers/issues.py
\* The condition of get_project_and_check_read_access (issues.py:46,
\* worklogs.py:39): read access is admin or project owner.
ReadAccessDenied(role, uid, owner) == role # "admin" /\ owner # uid

WriteAccessDenied_AssigneeInverted(role, uid, owner, reporter, assignee) ==
    /\ role # "admin"
    /\ owner # uid
    /\ reporter # uid
    /\ assignee = uid

WriteAccessDenied_OwnerOnly(role, uid, owner, reporter, assignee) ==
    /\ role # "admin"
    /\ owner # uid

\* The condition of get_issue_and_check_write_access (issues.py:83-88).
WriteAccessDenied(role, uid, owner, reporter, assignee) ==
    /\ role # "admin"
    /\ owner # uid
    /\ reporter # uid
    /\ assignee # uid

\* get_project_and_check_read_access(project_id, current_user), one
\* repository call: 404 when the project is missing, 403 when the principal
\* is neither admin nor owner, else on to pc next.
get_project_and_check_read_access(db, rq, project_id, next) ==
    IF ~HasProject(db, project_id)
    THEN Respond(db, [rq EXCEPT !.touched = TRUE], NOT_FOUND)
    ELSE LET owner == db.projects[project_id].owner_id
             r1 == [rq EXCEPT !.touched = TRUE, !.l_proj = TRUE, !.l_owner = owner,
                              !.l_pid = project_id]
         IN  IF ReadAccessDenied(rq.role, rq.uid, owner)
             THEN Respond(db, r1, FORBIDDEN)
             ELSE Ret(db, [r1 EXCEPT !.pc = next])

\* The row of crud_issue.get_issue_by_id kept by its caller.
SeenIssue(db, rq, i) ==
    [rq EXCEPT !.touched = TRUE, !.l_issue = TRUE, !.l_pid = db.issues[i].project_id,
               !.l_rep = db.issues[i].reporter_id, !.l_asg = db.issues[i].assignee_id]

\* get_issue_and_check_write_access(issue_id, current_user): two repository
\* calls (pc "body": the issue, pc "guard": its project), 404 when the issue
\* is missing, 500 when its project is, 403 when WriteAccessDenied.
get_issue_and_check_write_access(db, rq) ==
    IF rq.pc = "body"
    THEN IF rq.fault = "guard_dberror"
         THEN mysql_exception_handler(db, [rq EXCEPT !.touched = TRUE], ErrMsg)
         ELSE IF ~HasIssue(db, rq.id)
         THEN Respond(db, [rq EXCEPT !.touched = TRUE], NOT_FOUND)
         ELSE Ret(db, [SeenIssue(db, rq, rq.id) EXCEPT !.pc = "guard"])
    ELSE IF ~HasProject(db, rq.l_pid)
         THEN Respond(db, rq, SERVER_ERROR)
         ELSE LET owner == db.projects[rq.l_pid].owner_id
                  r1 == [rq EXCEPT !.l_proj = TRUE, !.l_owner = owner]
              IN  IF WriteAccessDenied(rq.role, rq.uid, owner, rq.l_rep, rq.l_asg)
                  THEN Respond(db, r1, FORBIDDEN)
                  ELSE Ret(db, [r1 EXCEPT !.pc = "write"])

\* The re-read that ends every crud update (return get_issue_by_id(issue_id)):
\* the route returns the row, and a None fails the response model (500).
RereadIssue(db, rq) ==
    IF HasIssue(db, rq.id)
    THEN Respond(db, [rq EXCEPT !.data = {db.issues[rq.id].project_id}], OK)
    ELSE Respond(db, rq, SERVER_ERROR)

\* UPDATE Issue SET ... WHERE issue_id = id (no row: nothing changes).
\* UPDATE t SET the columns that are both in the payload (model_dump with
\* exclude_unset) and in allowed_columns; the other columns keep their value.
SetColumns(row, fields_to_update, allowed_columns) ==
    [c \in DOMAIN row |-> IF c \in DOMAIN fields_to_update \cap allowed_columns
                          THEN fields_to_update[c] ELSE row[c]]

IssueAllowedColumns == {"description", "issue_type", "priority", "due_date", "story_points", "parent_issue_id"}
UserAllowedColumns == {"email", "first_name", "last_name", "phone"}
ProjectAllowedColumns == {"project_name", "description", "start_date", "end_date", "status", "owner_id"}
SprintAllowedColumns == {"sprint_name", "goal", "start_date", "end_date", "status"}
WorklogAllowedColumns == {"hours_logged", "work_date", "description"}

update_issue_NoAllowList(db, issue_id, fields_to_update) ==
    IF issue_id \in DOMAIN db.issues
    THEN [db EXCEPT !.issues[issue_id] = SetColumns(@, fields_to_update, DOMAIN fields_to_update)]
    ELSE db

\* crud.update_issue: the UPDATE (none when no allowed column is in the payload).
update_issue(db, issue_id, fields_to_update) ==
    IF issue_id \in DOMAIN db.issues
    THEN [db EXCEPT !.issues[issue_id] = SetColumns(@, fields_to_update, IssueAllowedColumns)]
    ELSE db

update_user(db, user_id, fields_to_update) ==
    IF user_id \in DOMAIN db.users
    THEN [db EXCEPT !.users[user_id] = SetColumns(@, fields_to_update, UserAllowedColumns)]
    ELSE db

update_project(db, project_id, fields_to_update) ==
    IF project_id \in DOMAIN db.projects
    THEN [db EXCEPT !.projects[project_id] = SetColumns(@, fields_to_update, ProjectAllowedColumns)]
    ELSE db

update_sprint(db, sprint_id, fields_to_update) ==
    IF sprint_id \in DOMAIN db.sprints
    THEN [db EXCEPT !.sprints[sprint_id] = SetColumns(@, fields_to_update, SprintAllowedColumns)]
    ELSE db

update_worklog(db, worklog_id, fields_to_update) ==
    IF worklog_id \in DOMAIN db.worklogs
    THEN [db EXCEPT !.worklogs[worklog_id] = SetColumns(@, fields_to_update, WorklogAllowedColumns)]
    ELSE db

\* The payload of an update as the crud function sees it after
\* model_dump(exclude_unset=True): the fields of the schema that the client
\* has sent.  IssueUpdate has description, status, assignee_id and sprint_id
\* among its fields (rq.fields says which are sent, each with the value
\* rq.val); of ProjectUpdate, SprintUpdate, WorklogUpdate and UserUpdate the
\* fields that are modelled are owner_id, sprint_name, hours_logged and email;
\* a client may add a role to the body of the profile update (rq.p_role).
Payload(rq) ==
    CASE rq.op = "update_existing_issue" -> [k \in rq.fields |-> rq.val]
      [] rq.op = "update_existing_project" ->
            [k \in {"project_name"} \cup (IF rq.val # 0 THEN {"owner_id"} ELSE {}) |-> rq.val]
      [] rq.op = "update_existing_sprint" -> [k \in {"sprint_name"} |-> rq.val]
      [] rq.op = "update_existing_worklog" -> [k \in (IF rq.val # 0 THEN {"hours_logged"} ELSE {}) |-> Round2(rq.val)]
      [] rq.op = "update_current_user" ->
            [k \in (IF rq.email # "" THEN {"email"} ELSE {})
                     \cup (IF rq.p_role # "none" THEN {"role"} ELSE {}) |->
                IF k = "role" THEN rq.p_role ELSE rq.email]

UpdateIssue(db, i, column, value) ==
    IF i \in DOMAIN db.issues
    THEN [db EXCEPT !.issues[i][column] = value]
    ELSE db

\* PUT /api/issues/{issue_id}: update_existing_issue with crud.update_issue.
\* val is the payload's description (0: the payload sets no allowed field,
\* and update_issue runs no UPDATE).
update_existing_issue(db, rq) ==
    CASE rq.pc = "start" -> get_current_user(db, rq)
      [] rq.pc \in {"body", "guard"} -> get_issue_and_check_write_access(db, rq)
      [] rq.pc = "write" ->
            IF DOMAIN Payload(rq) \cap IssueAllowedColumns = {}
            THEN Ret(db, [rq EXCEPT !.pc = "reread"])
            ELSE Ret(update_issue(db, rq.id, Payload(rq)),
                     [rq EXCEPT !.pc = "reread", !.wrote = TRUE])
      [] rq.pc = "reread" -> RereadIssue(db, rq)

\* PATCH /api/issues/{issue_id}/status: CALL UpdateIssueStatus; a status the
\* procedure rejects is a mysql error, raised as ValueError (400).
update_issue_status_endpoint(db, rq) ==
    CASE rq.pc = "start" -> get_current_user(db, rq)
      [] rq.pc \in {"body", "guard"} -> get_issue_and_check_write_access(db, rq)
      [] rq.pc = "write" ->
            IF rq.fault \in {"reject", "dberror"}
            THEN ValueErrorResponse(db, rq, "Failed to update status: ")
            ELSE Ret(UpdateIssue(db, rq.id, "status", rq.val),
                     [rq EXCEPT !.pc = "reread", !.wrote = TRUE])
      [] rq.pc = "reread" -> RereadIssue(db, rq)

\* DELETE /api/issues/{issue_id}: the 404 of "not deleted" is raised inside
\* the try and caught by its except Exception (500).
delete_issue_by_id(db, rq) ==
    CASE rq.pc = "start" -> get_current_user(db, rq)
      [] rq.pc \in {"body", "guard"} -> get_issue_and_check_write_access(db, rq)
      [] rq.pc = "write" ->
            IF rq.id \in DOMAIN db.issues
            THEN Respond(DeleteIssues(db, {rq.id}), [rq EXCEPT !.wrote = TRUE], NO_CONTENT)
            ELSE Respond(db, [rq EXCEPT !.wrote = TRUE], SERVER_ERROR)

\* The opening of assign_issue_to_user_endpoint and
\* assign_issue_to_sprint_endpoint (issues.py:346-353, 379-386): the issue,
\* then project-level access.
AssignGuard(db, rq) ==
    IF rq.pc = "body"
    THEN IF ~HasIssue(db, rq.id)
         THEN Respond(db, [rq EXCEPT !.touched = TRUE], NOT_FOUND)
         ELSE Ret(db, [SeenIssue(db, rq, rq.id) EXCEPT !.pc = "guard"])
    ELSE get_project_and_check_read_access(db, rq, rq.l_pid, "write")

\* PATCH /api/issues/{issue_id}/assign-user: UPDATE Issue SET assignee_id;
\* an assignee that is no user row fails the foreign key (mysql error, 500).
assign_issue_to_user_endpoint(db, rq) ==
    CASE rq.pc = "start" -> get_current_user(db, rq)
      [] rq.pc \in {"body", "guard"} -> AssignGuard(db, rq)
      [] rq.pc = "write" ->
            IF rq.val # 0 /\ rq.val \notin DOMAIN db.users
            THEN Respond(db, rq, SERVER_ERROR)
            ELSE Ret(UpdateIssue(db, rq.id, "assignee_id", rq.val),
                     [rq EXCEPT !.pc = "reread", !.wrote = TRUE])
      [] rq.pc = "reread" -> RereadIssue(db, rq)

\* PATCH /api/issues/{issue_id}/assign-sprint: CALL AssignIssueToSprint; a
\* sprint the procedure rejects (or a missing one) is a mysql error, raised as
\* ValueError (400).
assign_issue_to_sprint_endpoint(db, rq) ==
    CASE rq.pc = "start" -> get_current_user(db, rq)
      [] rq.pc \in {"body", "guard"} -> AssignGuard(db, rq)
      [] rq.pc = "write" ->
            IF rq.fault \in {"reject", "dberror"}
            THEN ValueErrorResponse(db, rq, "Failed to assign sprint: ")
            ELSE IF rq.val # 0 /\ rq.val \notin DOMAIN db.sprints
            THEN Respond(db, rq, BAD_REQUEST)
            ELSE Ret(UpdateIssue(db, rq.id, "sprint_id", rq.val),
                     [rq EXCEPT !.pc = "reread", !.wrote = TRUE])
      [] rq.pc = "reread" -> RereadIssue(db, rq)

\* POST /api/issues/: create_new_issue with crud.create_issue.  id is the
\* payload's project_id; the reporter is the principal.  CALL CreateIssue
\* fails (mysql error, raised as ValueError, 400) when the procedure rejects
\* the row or the project is gone; a None of the re-read is the 500 raised and
\* caught inside the try.
create_new_issue(db, rq) ==
    CASE rq.pc = "start" -> get_current_user(db, rq)
      [] rq.pc = "body" -> get_project_and_check_read_access(db, rq, rq.id, "write")
      [] rq.pc = "write" ->
            IF rq.fault \in {"reject", "dberror"}
            THEN ValueErrorResponse(db, rq, "Failed to create issue: ")
            ELSE IF ~HasProject(db, rq.id)
            THEN Respond(db, rq, BAD_REQUEST)
            ELSE LET new == db.next_id.issues
                     row == [project_id |-> rq.id, sprint_id |-> 0, reporter_id |-> creator_id(rq.uid, rq.p_uid),
                             assignee_id |-> 0, status |-> 0, description |-> rq.val]
                 IN  Ret([db EXCEPT !.issues = Insert(db.issues, new, row),
                                    !.next_id.issues = new + 1],
                         [rq EXCEPT !.pc = "reread", !.wrote = TRUE, !.l_new = new])
      [] rq.pc = "reread" ->
            IF rq.fault = "reread"
            THEN RereadFailed(db, rq)
            ELSE IF HasIssue(db, rq.l_new)
            THEN Respond(db, [rq EXCEPT !.data = {db.issues[rq.l_new].project_id}], CREATED)
            ELSE Respond(db, rq, SERVER_ERROR)

\* The projects of the issue rows a list query returns.
IssuesOfProject(db, p) ==
    {db.issues[i].project_id : i \in {x \in DOMAIN db.issues : HasIssue(db, x) /\ db.issues[x].project_id = p}}

IssuesOfSprint(db, sp) ==
    {db.issues[i].project_id : i \in {x \in DOMAIN db.issues : HasIssue(db, x) /\ db.issues[x].sprint_id = sp}}

\* GET /api/issues/?project_id=&sprint_id=: read_issues.  id is project_id,
\* val is sprint_id (0: not supplied); the sprint filter is looked at first.
issue_filter_ProjectByDefault(project_id, sprint_id) ==
    IF sprint_id # 0 THEN "sprint" ELSE "project"

\* read_issues: if sprint_id / elif project_id / else (an id that is absent
\* and an id 0 are both falsy).
issue_filter(project_id, sprint_id) ==
    IF sprint_id # 0 THEN "sprint" ELSE IF project_id # 0 THEN "project" ELSE "none"

read_issues(db, rq) ==
    CASE rq.pc = "start" -> get_current_user(db, rq)
      [] rq.pc = "body" ->
            IF issue_filter(rq.id, rq.val) = "sprint"
            THEN IF rq.val \notin DOMAIN db.sprints
                 THEN Respond(db, [rq EXCEPT !.touched = TRUE], NOT_FOUND)
                 ELSE Ret(db, [rq EXCEPT !.touched = TRUE, !.pc = "guard",
                                         !.l_pid = db.sprints[rq.val].project_id])
            ELSE IF issue_filter(rq.id, rq.val) = "project"
                 THEN get_project_and_check_read_access(db, rq, rq.id, "list")
                 ELSE Respond(db, rq, BAD_REQUEST)
      [] rq.pc = "guard" -> get_project_and_check_read_access(db, rq, rq.l_pid, "list")
      [] rq.pc = "list" ->
            IF issue_filter(rq.id, rq.val) = "sprint"
            THEN Respond(db, [rq EXCEPT !.data = IssuesOfSprint(db, rq.val),
                                        !.query = <<"sprint_id", rq.val>>], OK)
            ELSE Respond(db, [rq EXCEPT !.data = IssuesOfProject(db, rq.id),
                                        !.query = <<"project_id", rq.id>>], OK)

\* Sum of hours_logged over the worklogs of an issue (CalculateTotalIssueHours,
\* and the rows of get_worklogs_by_issue_id).
RECURSIVE SumHours(_, _)
SumHours(db, ws) ==
    IF ws = {} THEN 0
    ELSE LET w == CHOOSE x \in ws : TRUE
         IN  db.worklogs[w].hours_logged + SumHours(db, ws \ {w})

WorklogsOf(db, i) == {w \in DOMAIN db.worklogs : db.worklogs[w].issue_id = i}

\* crud.get_total_hours_for_issue: SELECT CalculateTotalIssueHours(issue_id);
\* when the query raises (fault "total_error": no connection, a database
\* error) the except branch logs and returns 0.0.
get_total_hours_for_issue(db, issue_id, fault) ==
    IF fault = "total_error" THEN 0 ELSE SumHours(db, WorklogsOf(db, issue_id))

\* GET /api/issues/{issue_id}: read_issue_by_id.  crud.get_issue_with_details
\* reads the issue, its comments, worklogs, attachments and total hours in five
\* repository calls; project access is checked after them.
read_issue_by_id(db, rq) ==
    CASE rq.pc = "start" -> get_current_user(db, rq)
      [] rq.pc = "body" ->
            IF ~HasIssue(db, rq.id)
            THEN Respond(db, [rq EXCEPT !.touched = TRUE], NOT_FOUND)
            ELSE Ret(db, [SeenIssue(db, rq, rq.id) EXCEPT !.pc = "comments"])
      [] rq.pc = "comments" -> Ret(db, [rq EXCEPT !.pc = "worklogs", !.touched = TRUE])
      [] rq.pc = "worklogs" ->
            Ret(db, [rq EXCEPT !.pc = "attachments", !.l_hours = SumHours(db, WorklogsOf(db, rq.id))])
      [] rq.pc = "attachments" -> Ret(db, [rq EXCEPT !.pc = "total", !.touched = TRUE])
      [] rq.pc = "total" ->
            Ret(db, [rq EXCEPT !.pc = "guard", !.l_total = get_total_hours_for_issue(db, rq.id, rq.fault)])
      [] rq.pc = "guard" ->
            LET s == get_project_and_check_read_access(db, rq, rq.l_pid, "respond")
            IN  IF s.rq.pc = "respond"
                THEN Respond(db, [s.rq EXCEPT !.data = {rq.l_pid}], OK)
                ELSE s

\* ---------------------------------------------------- routers/projects.py
\* POST /api/projects/: create_new_project; the owner is the principal.  A
\* duplicate project_key (errno 1062) is raised as ValueError (400).
create_new_project(db, rq) ==
    CASE rq.pc = "start" -> get_current_user(db, rq)
      [] rq.pc = "body" ->
            IF rq.fault = "reject"
            THEN Respond(db, [rq EXCEPT !.touched = TRUE], BAD_REQUEST)
            ELSE LET new == db.next_id.projects
                 IN  Ret([db EXCEPT !.projects = Insert(db.projects, new, [owner_id |-> creator_id(rq.uid, rq.p_uid)]),
                                    !.next_id.projects = new + 1],
                         [rq EXCEPT !.pc = "reread", !.touched = TRUE, !.wrote = TRUE, !.l_new = new])
      [] rq.pc = "reread" ->
            IF rq.fault = "reread"
            THEN RereadFailed(db, rq)
            ELSE IF HasProject(db, rq.l_new)
            THEN Respond(db, [rq EXCEPT !.data = {rq.l_new}], CREATED)
            ELSE Respond(db, rq, SERVER_ERROR)

\* GET /api/projects/: read_all_projects, every project row.
read_all_projects(db, rq) ==
    CASE rq.pc = "start" -> get_current_user(db, rq)
      [] rq.pc = "body" -> Respond(db, [rq EXCEPT !.touched = TRUE, !.data = DOMAIN db.projects], OK)

\* read_project_by_id(project_id, current_user), one repository call: 404
\* when the project is missing, else on to pc next with the row.
ReadProject(db, rq, next) ==
    IF ~HasProject(db, rq.id)
    THEN Respond(db, [rq EXCEPT !.touched = TRUE], NOT_FOUND)
    ELSE Ret(db, [rq EXCEPT !.touched = TRUE, !.l_proj = TRUE, !.l_pid = rq.id,
                            !.l_owner = db.projects[rq.id].owner_id, !.pc = next])

\* GET /api/projects/{project_id}
read_project_by_id(db, rq) ==
    CASE rq.pc = "start" -> get_current_user(db, rq)
      [] rq.pc = "body" ->
            LET s == ReadProject(db, rq, "respond")
            IN  IF s.rq.pc = "respond" THEN Respond(db, [s.rq EXCEPT !.data = {rq.id}], OK) ELSE s

\* The opening of update_existing_project and delete_project_by_id
\* (projects.py:118-132, 167-181).
ProjectOwnerGuard(db, rq) ==
    LET s == ReadProject(db, rq, "write")
    IN  IF s.rq.pc = "write" /\ ReadAccessDenied(rq.role, rq.uid, s.rq.l_owner)
        THEN Respond(db, s.rq, FORBIDDEN)
        ELSE s

\* PUT /api/projects/{project_id}: update_existing_project with
\* crud.update_project.  val is the payload's owner_id (0: the payload sets
\* other allowed columns only); an owner that is no user row fails the foreign
\* key.  Both that error and the 404 of a None re-read are caught by the
\* except Exception of the route (500).
update_existing_project(db, rq) ==
    CASE rq.pc = "start" -> get_current_user(db, rq)
      [] rq.pc = "body" -> ProjectOwnerGuard(db, rq)
      [] rq.pc = "write" ->
            IF rq.val # 0 /\ rq.val \notin DOMAIN db.users
            THEN Respond(db, rq, SERVER_ERROR)
            ELSE Ret(update_project(db, rq.id, Payload(rq)),
                     [rq EXCEPT !.pc = "reread", !.wrote = TRUE])
      [] rq.pc = "reread" ->
            IF HasProject(db, rq.id)
            THEN Respond(db, [rq EXCEPT !.data = {rq.id}], OK)
            ELSE Respond(db, rq, SERVER_ERROR)

\* DELETE /api/projects/{project_id}
delete_project_by_id(db, rq) ==
    CASE rq.pc = "start" -> get_current_user(db, rq)
      [] rq.pc = "body" -> ProjectOwnerGuard(db, rq)
      [] rq.pc = "write" ->
            IF HasProject(db, rq.id)
            THEN Respond(DeleteProject(db, rq.id), [rq EXCEPT !.wrote = TRUE], NO_CONTENT)
            ELSE Respond(db, [rq EXCEPT !.wrote = TRUE], SERVER_ERROR)

\* GET /api/projects/{project_id}/sprints: read_project_by_id, then the list.
read_project_sprints(db, rq) ==
    CASE rq.pc = "start" -> get_current_user(db, rq)
      [] rq.pc = "body" -> ReadProject(db, rq, "list")
      [] rq.pc = "list" ->
            Respond(db, [rq EXCEPT !.data = {db.sprints[x].project_id :
                                              x \in {y \in DOMAIN db.sprints : db.sprints[y].project_id = rq.id}}], OK)

\* GET /api/projects/{project_id}/issues: read_project_by_id, then the list.
read_project_issues(db, rq) ==
    CASE rq.pc = "start" -> get_current_user(db, rq)
      [] rq.pc = "body" -> ReadProject(db, rq, "list")
      [] rq.pc = "list" -> Respond(db, [rq EXCEPT !.data = IssuesOfProject(db, rq.id)], OK)

\* ----------------------------------------------------- routers/sprints.py
\* read_sprint_by_id(sprint_id, current_user), two repository calls (pc
\* "body": the sprint, pc "guard": its project): 404 when the sprint is
\* missing, 403 when the project is missing or the principal is neither admin
\* nor owner (sprints.py:99-109), else on to pc next.
ReadSprint(db, rq, next) ==
    IF rq.pc = "body"
    THEN IF rq.id \notin DOMAIN db.sprints
         THEN Respond(db, [rq EXCEPT !.touched = TRUE], NOT_FOUND)
         ELSE Ret(db, [rq EXCEPT !.touched = TRUE, !.pc = "guard", !.l_rec = TRUE,
                                 !.l_pid = db.sprints[rq.id].project_id])
    ELSE IF ~HasProject(db, rq.l_pid)
         THEN Respond(db, rq, FORBIDDEN)
         ELSE LET owner == db.projects[rq.l_pid].owner_id
                  r1 == [rq EXCEPT !.l_proj = TRUE, !.l_owner = owner]
              IN  IF ReadAccessDenied(rq.role, rq.uid, owner)
                  THEN Respond(db, r1, FORBIDDEN)
                  ELSE Ret(db, [r1 EXCEPT !.pc = next])

\* GET /api/sprints/{sprint_id}
read_sprint_by_id(db, rq) ==
    CASE rq.pc = "start" -> get_current_user(db, rq)
      [] rq.pc \in {"body", "guard"} ->
            LET s == ReadSprint(db, rq, "respond")
            IN  IF s.rq.pc = "respond" THEN Respond(db, [s.rq EXCEPT !.data = {rq.l_pid}], OK) ELSE s

\* GET /api/sprints/{sprint_id}/issues
read_sprint_issues(db, rq) ==
    CASE rq.pc = "start" -> get_current_user(db, rq)
      [] rq.pc \in {"body", "guard"} -> ReadSprint(db, rq, "list")
      [] rq.pc = "list" -> Respond(db, [rq EXCEPT !.data = IssuesOfSprint(db, rq.id)], OK)

\* POST /api/sprints/: create_new_sprint.  id is the payload's project_id.
\* crud.create_sprint looks the project up again (ValueError, 400) and
\* inserts; the insert fails the foreign key when the project is gone by then
\* (mysql error, 500).
create_new_sprint(db, rq) ==
    CASE rq.pc = "start" -> get_current_user(db, rq)
      [] rq.pc = "body" -> ProjectOwnerGuard(db, rq)
      [] rq.pc = "write" ->
            IF HasProject(db, rq.id) THEN Ret(db, [rq EXCEPT !.pc = "insert"])
            ELSE Respond(db, rq, BAD_REQUEST)
      [] rq.pc = "insert" ->
            IF ~HasProject(db, rq.id)
            THEN Respond(db, rq, SERVER_ERROR)
            ELSE LET new == db.next_id.sprints
                 IN  Ret([db EXCEPT !.sprints = Insert(db.sprints, new, [project_id |-> rq.id]),
                                    !.next_id.sprints = new + 1],
                         [rq EXCEPT !.pc = "reread", !.wrote = TRUE, !.l_new = new])
      [] rq.pc = "reread" ->
            IF rq.l_new \in DOMAIN db.sprints
            THEN Respond(db, [rq EXCEPT !.data = {rq.id}], CREATED)
            ELSE Respond(db, rq, SERVER_ERROR)

\* PUT /api/sprints/{sprint_id}: update_existing_sprint (the columns of the
\* allow-list are not part of the row modelled); the 404 of a None re-read is
\* caught by the except Exception of the route (500).
update_existing_sprint(db, rq) ==
    CASE rq.pc = "start" -> get_current_user(db, rq)
      [] rq.pc \in {"body", "guard"} -> ReadSprint(db, rq, "write")
      [] rq.pc = "write" -> Ret(update_sprint(db, rq.id, Payload(rq)), [rq EXCEPT !.pc = "reread", !.wrote = TRUE])
      [] rq.pc = "reread" ->
            IF rq.id \in DOMAIN db.sprints
            THEN Respond(db, [rq EXCEPT !.data = {db.sprints[rq.id].project_id}], OK)
            ELSE Respond(db, rq, SERVER_ERROR)

\* DELETE /api/sprints/{sprint_id}
delete_sprint_by_id(db, rq) ==
    CASE rq.pc = "start" -> get_current_user(db, rq)
      [] rq.pc \in {"body", "guard"} -> ReadSprint(db, rq, "write")
      [] rq.pc = "write" ->
            IF rq.id \in DOMAIN db.sprints
            THEN Respond(DeleteSprints(db, {rq.id}), [rq EXCEPT !.wrote = TRUE], NO_CONTENT)
            ELSE Respond(db, [rq EXCEPT !.wrote = TRUE], SERVER_ERROR)

\* ---------------------------------- routers/comments.py, attachments.py
\* get_issue_and_check_read_access of comments.py:24-58 and
\* attachments.py:36-69, two repository calls (pc "body": the issue i, pc
\* "guard": its project): 404, 500 when the project is missing, 403.
IssueReadGuard(db, rq, i, next) ==
    IF rq.pc = "body"
    THEN IF ~HasIssue(db, i)
         THEN Respond(db, [rq EXCEPT !.touched = TRUE], NOT_FOUND)
         ELSE Ret(db, [SeenIssue(db, rq, i) EXCEPT !.pc = "guard"])
    ELSE IF ~HasProject(db, rq.l_pid)
         THEN Respond(db, rq, SERVER_ERROR)
         ELSE LET owner == db.projects[rq.l_pid].owner_id
                  r1 == [rq EXCEPT !.l_proj = TRUE, !.l_owner = owner]
              IN  IF ReadAccessDenied(rq.role, rq.uid, owner)
                  THEN Respond(db, r1, FORBIDDEN)
                  ELSE Ret(db, [r1 EXCEPT !.pc = next])

\* The update check of comments.py:150 and worklogs.py:154: admin or author.
AuthorAccessDenied(role, uid, author) == role # "admin" /\ author # uid

DeleteAccessDenied_AuthorOnly(role, uid, author, owner) ==
    /\ role # "admin"
    /\ author # uid

\* The delete check of comments.py:223-227, worklogs.py:223-227 and
\* attachments.py:279-283: admin, author or project owner (owner 0: none found).
DeleteAccessDenied(role, uid, author, owner) ==
    /\ role # "admin"
    /\ author # uid
    /\ owner # uid

\* The opening of update_existing_comment and update_existing_worklog: the
\* record of table t, then AuthorAccessDenied.
RecordUpdateGuard(db, rq, t) ==
    IF rq.id \notin DOMAIN t
    THEN Respond(db, [rq EXCEPT !.touched = TRUE], NOT_FOUND)
    ELSE LET r1 == [rq EXCEPT !.touched = TRUE, !.l_rec = TRUE, !.l_author = t[rq.id].user_id,
                              !.l_iid = t[rq.id].issue_id]
         IN  IF AuthorAccessDenied(rq.role, rq.uid, r1.l_author)
             THEN Respond(db, r1, FORBIDDEN)
             ELSE Ret(db, [r1 EXCEPT !.pc = "write"])

\* The opening of delete_existing_comment, delete_existing_worklog and
\* delete_existing_attachment, three repository calls (pc "body": the record
\* of table t, pc "guard": its issue, pc "guard2": the issue's project).  With
\* no issue only admin or author pass; with no project the owner is None.
RecordDeleteGuard(db, rq, t) ==
    CASE rq.pc = "body" ->
            IF rq.id \notin DOMAIN t
            THEN Respond(db, [rq EXCEPT !.touched = TRUE], NOT_FOUND)
            ELSE Ret(db, [rq EXCEPT !.touched = TRUE, !.l_rec = TRUE, !.pc = "guard",
                                    !.l_author = t[rq.id].user_id, !.l_iid = t[rq.id].issue_id])
      [] rq.pc = "guard" ->
            IF HasIssue(db, rq.l_iid)
            THEN Ret(db, [SeenIssue(db, rq, rq.l_iid) EXCEPT !.pc = "guard2"])
            ELSE IF AuthorAccessDenied(rq.role, rq.uid, rq.l_author)
                 THEN Respond(db, rq, FORBIDDEN)
                 ELSE IF DeleteAccessDenied(rq.role, rq.uid, rq.l_author, 0)
                      THEN Respond(db, rq, FORBIDDEN)
                      ELSE Ret(db, [rq EXCEPT !.pc = "write"])
      [] rq.pc = "guard2" ->
            LET r1 == IF HasProject(db, rq.l_pid)
                      THEN [rq EXCEPT !.l_proj = TRUE, !.l_owner = db.projects[rq.l_pid].owner_id]
                      ELSE rq
            IN  IF DeleteAccessDenied(rq.role, rq.uid, rq.l_author, r1.l_owner)
                THEN Respond(db, r1, FORBIDDEN)
                ELSE Ret(db, [r1 EXCEPT !.pc = "write"])

\* POST /api/comments/: create_new_comment; id is the payload's issue_id, the
\* author is the principal.  CALL AddComment fails the foreign key when the
\* issue is gone (errno 1452, ValueError, 400).
create_new_comment(db, rq) ==
    CASE rq.pc = "start" -> get_current_user(db, rq)
      [] rq.pc \in {"body", "guard"} -> IssueReadGuard(db, rq, rq.id, "write")
      [] rq.pc = "write" ->
            IF rq.id \notin DOMAIN db.issues
            THEN Respond(db, rq, BAD_REQUEST)
            ELSE LET new == db.next_id.comments
                     row == [issue_id |-> rq.id, user_id |-> creator_id(rq.uid, rq.p_uid), comment_text |-> rq.val]
                 IN  Ret([db EXCEPT !.comments = Insert(db.comments, new, row),
                                    !.next_id.comments = new + 1],
                         [rq EXCEPT !.pc = "reread", !.wrote = TRUE, !.l_new = new])
      [] rq.pc = "reread" ->
            IF rq.fault = "reread"
            THEN RereadFailed(db, rq)
            ELSE IF rq.l_new \in DOMAIN db.comments
            THEN Respond(db, [rq EXCEPT !.data = {rq.l_pid}], CREATED)
            ELSE Respond(db, rq, SERVER_ERROR)

\* GET /api/comments/by-issue/{issue_id}
read_comments_for_issue(db, rq) ==
    CASE rq.pc = "start" -> get_current_user(db, rq)
      [] rq.pc \in {"body", "guard"} -> IssueReadGuard(db, rq, rq.id, "list")
      [] rq.pc = "list" ->
            Respond(db, [rq EXCEPT !.data = IF \E c \in DOMAIN db.comments : db.comments[c].issue_id = rq.id
                                             THEN {rq.l_pid} ELSE {}], OK)

\* PUT /api/comments/{comment_id}: the 404 of a None re-read is caught by the
\* except Exception of the route (500).
update_existing_comment(db, rq) ==
    CASE rq.pc = "start" -> get_current_user(db, rq)
      [] rq.pc = "body" -> RecordUpdateGuard(db, rq, db.comments)
      [] rq.pc = "write" ->
            Ret(IF rq.id \in DOMAIN db.comments
                THEN [db EXCEPT !.comments[rq.id].comment_text = rq.val] ELSE db,
                [rq EXCEPT !.pc = "reread", !.wrote = TRUE])
      [] rq.pc = "reread" ->
            IF rq.id \in DOMAIN db.comments THEN Respond(db, rq, OK) ELSE Respond(db, rq, SERVER_ERROR)

\* DELETE /api/comments/{comment_id}
delete_existing_comment(db, rq) ==
    CASE rq.pc = "start" -> get_current_user(db, rq)
      [] rq.pc \in {"body", "guard", "guard2"} -> RecordDeleteGuard(db, rq, db.comments)
      [] rq.pc = "write" ->
            IF rq.id \in DOMAIN db.comments
            THEN Respond([db EXCEPT !.comments = Delete(db.comments, {rq.id})],
                         [rq EXCEPT !.wrote = TRUE], NO_CONTENT)
            ELSE Respond(db, [rq EXCEPT !.wrote = TRUE], SERVER_ERROR)

\* ---------------------------------------------------- routers/worklogs.py
\* get_issue_and_check_read_access of worklogs.py:51-64 followed by
\* get_project_and_check_read_access (pc "body": the issue i, pc "guard": its
\* project): 404 for either missing, 403.
WorklogIssueGuard(db, rq, i, next) ==
    IF rq.pc = "body"
    THEN IF ~HasIssue(db, i)
         THEN Respond(db, [rq EXCEPT !.touched = TRUE], NOT_FOUND)
         ELSE Ret(db, [SeenIssue(db, rq, i) EXCEPT !.pc = "guard"])
    ELSE get_project_and_check_read_access(db, rq, rq.l_pid, next)

\* The parameter current_user of worklogs.py:51 carries no Depends: on the two
\* routes that name the helper as their dependency, the framework fills it
\* from the request body and get_current_user never runs.
BodyPrincipal(db, rq) ==
    Ret(db, [rq EXCEPT !.uid = rq.b_uid, !.role = rq.b_role, !.pc = "body"])

\* POST /api/worklogs/: create_new_worklog; id is the payload's issue_id, val
\* the hours.  CALL LogWork fails the foreign key when the issue is gone.
create_new_worklog(db, rq) ==
    CASE rq.pc = "start" -> get_current_user(db, rq)
      [] rq.pc \in {"body", "guard"} ->
            IF rq.pc = "body" /\ ~HoursValid(rq.val)
            THEN Respond(db, rq, UNPROCESSABLE)
            ELSE WorklogIssueGuard(db, rq, rq.id, "write")
      [] rq.pc = "write" ->
            IF rq.id \notin DOMAIN db.issues
            THEN Respond(db, rq, BAD_REQUEST)
            ELSE LET new == db.next_id.worklogs
                     row == [issue_id |-> rq.id, user_id |-> creator_id(rq.uid, rq.p_uid), hours_logged |-> Round2(rq.val)]
                 IN  Ret([db EXCEPT !.worklogs = Insert(db.worklogs, new, row),
                                    !.next_id.worklogs = new + 1],
                         [rq EXCEPT !.pc = "reread", !.wrote = TRUE, !.l_new = new])
      [] rq.pc = "reread" ->
            IF rq.fault = "reread"
            THEN RereadFailed(db, rq)
            ELSE IF rq.l_new \in DOMAIN db.worklogs
            THEN Respond(db, [rq EXCEPT !.data = {rq.l_pid}], CREATED)
            ELSE Respond(db, rq, SERVER_ERROR)

\* GET /api/worklogs/by-issue/{issue_id}
read_worklogs_for_issue(db, rq) ==
    CASE rq.pc = "start" -> BodyPrincipal(db, rq)
      [] rq.pc \in {"body", "guard"} -> WorklogIssueGuard(db, rq, rq.id, "list")
      [] rq.pc = "list" ->
            Respond(db, [rq EXCEPT !.data = IF WorklogsOf(db, rq.id) # {} THEN {rq.l_pid} ELSE {}], OK)

\* GET /api/worklogs/by-issue/{issue_id}/total-hours
get_total_hours_for_issue_endpoint(db, rq) ==
    CASE rq.pc = "start" -> BodyPrincipal(db, rq)
      [] rq.pc \in {"body", "guard"} -> WorklogIssueGuard(db, rq, rq.id, "total")
      [] rq.pc = "total" ->
            Respond(db, [rq EXCEPT !.l_total = get_total_hours_for_issue(db, rq.id, rq.fault),
                                   !.data = {rq.l_pid}], OK)

\* PUT /api/worklogs/{worklog_id}: val is the new hours_logged (in
\* thousandths of an hour), 0 a payload that sets no column.
update_existing_worklog(db, rq) ==
    CASE rq.pc = "start" -> get_current_user(db, rq)
      [] rq.pc = "body" ->
            IF rq.val # 0 /\ ~HoursValid(rq.val)
            THEN Respond(db, rq, UNPROCESSABLE)
            ELSE RecordUpdateGuard(db, rq, db.worklogs)
      [] rq.pc = "write" ->
            IF rq.val = 0
            THEN Ret(db, [rq EXCEPT !.pc = "reread"])
            ELSE Ret(update_worklog(db, rq.id, Payload(rq)),
                     [rq EXCEPT !.pc = "reread", !.wrote = TRUE])
      [] rq.pc = "reread" ->
            IF rq.id \in DOMAIN db.worklogs THEN Respond(db, rq, OK) ELSE Respond(db, rq, SERVER_ERROR)

\* DELETE /api/worklogs/{worklog_id}
delete_existing_worklog(db, rq) ==
    CASE rq.pc = "start" -> get_current_user(db, rq)
      [] rq.pc \in {"body", "guard", "guard2"} -> RecordDeleteGuard(db, rq, db.worklogs)
      [] rq.pc = "write" ->
            IF rq.id \in DOMAIN db.worklogs
            THEN Respond([db EXCEPT !.worklogs = Delete(db.worklogs, {rq.id})],
                         [rq EXCEPT !.wrote = TRUE], NO_CONTENT)
            ELSE Respond(db, [rq EXCEPT !.wrote = TRUE], SERVER_ERROR)

\* GET /api/worklogs/by-project/{project_id}/total-hours
get_total_hours_for_project_endpoint(db, rq) ==
    CASE rq.pc = "start" -> get_current_user(db, rq)
      [] rq.pc = "body" -> get_project_and_check_read_access(db, rq, rq.id, "total")
      [] rq.pc = "total" ->
            Respond(db, [rq EXCEPT !.data = {rq.id},
                                   !.l_total = SumHours(db, {w \in DOMAIN db.worklogs :
                                        /\ db.worklogs[w].issue_id \in DOMAIN db.issues
                                        /\ db.issues[db.worklogs[w].issue_id].project_id = rq.id})], OK)

\* ------------------------------------------------- routers/attachments.py
\* POST /api/attachments/by-issue/{issue_id}: upload_new_attachment.  The file
\* is saved under a fresh name (pc "write"), then crud.create_attachment
\* INSERTs the row (pc "insert") and reads it again (pc "reread").  Every
\* exception of create_attachment, and a None, is answered after os.remove of
\* the saved file; nothing deletes the row.  fault: "insert" a database error
\* of the INSERT, "oserror" the same with os.remove failing too, "reread" an
\* error of the re-read.
upload_new_attachment(db, rq) ==
    CASE rq.pc = "start" -> get_current_user(db, rq)
      [] rq.pc \in {"body", "guard"} -> IssueReadGuard(db, rq, rq.id, "write")
      [] rq.pc = "write" ->
            LET f == db.next_id.files
            IN  Ret([db EXCEPT !.files = @ \cup {f}, !.next_id.files = f + 1],
                    [rq EXCEPT !.pc = "insert", !.l_file = f])
      [] rq.pc = "insert" ->
            IF rq.fault \in {"insert", "oserror"}
            THEN Respond([db EXCEPT !.files = IF rq.fault = "oserror" THEN @ ELSE @ \ {rq.l_file}],
                         [rq EXCEPT !.detail = <<"An internal error occurred.">>], SERVER_ERROR)
            ELSE IF rq.id \notin DOMAIN db.issues
                 THEN Respond([db EXCEPT !.files = @ \ {rq.l_file}], rq, BAD_REQUEST)
                 ELSE LET new == db.next_id.attachments
                          row == [issue_id |-> rq.id, user_id |-> creator_id(rq.uid, rq.p_uid), file_path |-> rq.l_file]
                      IN  Ret([db EXCEPT !.attachments = Insert(db.attachments, new, row),
                                         !.next_id.attachments = new + 1],
                              [rq EXCEPT !.pc = "reread", !.wrote = TRUE, !.l_new = new])
      [] rq.pc = "reread" ->
            IF rq.fault = "reread" \/ rq.l_new \notin DOMAIN db.attachments
            THEN Respond([db EXCEPT !.files = @ \ {rq.l_file}],
                         [rq EXCEPT !.detail = <<"An internal error occurred.">>], SERVER_ERROR)
            ELSE Respond(db, [rq EXCEPT !.data = {rq.l_pid}], CREATED)

delete_attachment_Reraise(db, rq) ==
    IF rq.id \notin DOMAIN db.attachments
    THEN Ret(db, [rq EXCEPT !.pc = "false"])
    ELSE IF rq.pc = "write"
         THEN Ret(db, [rq EXCEPT !.pc = "delete", !.l_new = db.attachments[rq.id].file_path])
         ELSE Ret([db EXCEPT !.attachments = Delete(db.attachments, {rq.id}),
                             !.files = IF rq.fault = "oserror" THEN @ ELSE @ \ {rq.l_new}],
                  [rq EXCEPT !.pc = IF rq.fault = "oserror" THEN "false" ELSE "true", !.wrote = TRUE,
                             !.l_file = IF rq.l_new \in db.files THEN rq.l_new ELSE 0])

\* crud.delete_attachment: the row is read for its file_path (pc "write"),
\* then deleted, and after that its file is removed if it is on disk (pc
\* "delete"); an OSError of the removal (fault "oserror") is logged and not
\* raised.  Ends at pc "true" (a row was deleted) or "false".  l_file keeps
\* the file that was on disk when the row was deleted.
delete_attachment(db, rq) ==
    IF rq.id \notin DOMAIN db.attachments
    THEN Ret(db, [rq EXCEPT !.pc = "false"])
    ELSE IF rq.pc = "write"
         THEN Ret(db, [rq EXCEPT !.pc = "delete", !.l_new = db.attachments[rq.id].file_path])
         ELSE Ret([db EXCEPT !.attachments = Delete(db.attachments, {rq.id}),
                             !.files = IF rq.fault = "oserror" THEN @ ELSE @ \ {rq.l_new}],
                  [rq EXCEPT !.pc = "true", !.wrote = TRUE,
                             !.l_file = IF rq.l_new \in db.files THEN rq.l_new ELSE 0])

\* DELETE /api/attachments/{attachment_id}: 204 when crud.delete_attachment
\* returns True; the 404 of a False is raised inside the try and caught by
\* except Exception (500).
delete_existing_attachment(db, rq) ==
    CASE rq.pc = "start" -> get_current_user(db, rq)
      [] rq.pc \in {"body", "guard", "guard2"} -> RecordDeleteGuard(db, rq, db.attachments)
      [] rq.pc \in {"write", "delete"} ->
            LET r == delete_attachment(db, rq)
            IN  CASE r.rq.pc = "true" -> Respond(r.db, r.rq, NO_CONTENT)
                  [] r.rq.pc = "false" -> Respond(r.db, r.rq, SERVER_ERROR)
                  [] OTHER -> r

\* GET /api/worklogs/by-project/{project_id}/hours-by-user
get_project_hours_by_user_endpoint(db, rq) ==
    CASE rq.pc = "start" -> get_current_user(db, rq)
      [] rq.pc = "body" -> get_project_and_check_read_access(db, rq, rq.id, "list")
      [] rq.pc = "list" -> Respond(db, [rq EXCEPT !.data = {rq.id}], OK)

\* ------------------------------------------------------- routers/users.py
\* GET /api/users/: admin only, checked before the repository is read.
read_users(db, rq) ==
    CASE rq.pc = "start" -> get_current_user(db, rq)
      [] rq.pc = "body" ->
            IF rq.role # "admin"
            THEN Respond(db, rq, FORBIDDEN)
            ELSE Respond(db, [rq EXCEPT !.udata = DOMAIN db.users], OK)

SelfAccessDenied_Inverted(role, uid, user_id) == role # "admin" /\ uid = user_id

\* The condition of read_user (users.py:54): admin or the user themself.
SelfAccessDenied(role, uid, user_id) == role # "admin" /\ uid # user_id

\* GET /api/users/{user_id}
read_user(db, rq) ==
    CASE rq.pc = "start" -> get_current_user(db, rq)
      [] rq.pc = "body" ->
            IF SelfAccessDenied(rq.role, rq.uid, rq.id)
            THEN Respond(db, rq, FORBIDDEN)
            ELSE IF rq.id \notin DOMAIN db.users
                 THEN Respond(db, rq, NOT_FOUND)
                 ELSE Respond(db, [rq EXCEPT !.udata = {rq.id}], OK)

\* The rows of the User table with the given e-mail address / username.
get_user_by_email(db, email) == {u \in DOMAIN db.users : db.users[u].email = email}
get_user_by_username(db, name) == {u \in DOMAIN db.users : db.users[u].username = name}

\* PUT /api/users/me: crud.update_user on current_user.user_id; rq.email is the
\* new address, "" a payload that sets no column.  The unique index on email
\* raises errno 1062 (ValueError, 400); the 404 of a None re-read is raised
\* inside the try and caught by except Exception (500).
update_current_user(db, rq) ==
    CASE rq.pc = "start" -> get_current_user(db, rq)
      [] rq.pc = "body" ->
            IF rq.email = ""
            THEN Ret(db, [rq EXCEPT !.pc = "reread"])
            ELSE IF get_user_by_email(db, rq.email) \ {rq.uid} # {} /\ rq.uid \in DOMAIN db.users
                 THEN Respond(db, [rq EXCEPT !.wrote = TRUE], BAD_REQUEST)
                 ELSE Ret(update_user(db, rq.uid, Payload(rq)),
                          [rq EXCEPT !.pc = "reread", !.wrote = TRUE])
      [] rq.pc = "reread" ->
            IF rq.uid \in DOMAIN db.users
            THEN Respond(db, [rq EXCEPT !.udata = {rq.uid}], OK)
            ELSE Respond(db, rq, SERVER_ERROR)

\* crud.delete_user (crud/user.py:132-147): DELETE FROM User.  No route calls
\* it; the foreign keys let it remove only a user no other row refers to.
Referenced(db, u) ==
    \/ \E p \in DOMAIN db.projects : db.projects[p].owner_id = u
    \/ \E i \in DOMAIN db.issues : u \in {db.issues[i].reporter_id, db.issues[i].assignee_id}
    \/ \E c \in DOMAIN db.comments : db.comments[c].user_id = u
    \/ \E w \in DOMAIN db.worklogs : db.worklogs[w].user_id = u
    \/ \E a \in DOMAIN db.attachments : db.attachments[a].user_id = u

delete_user(db, u) ==
    IF u \in DOMAIN db.users /\ ~Referenced(db, u)
    THEN [db EXCEPT !.users = Delete(db.users, {u})]
    ELSE db

create_user_PayloadRole(username, email, payload_role, password_hash) ==
    [username |-> username, email |-> email,
     role |-> IF payload_role = "none" THEN "user" ELSE payload_role, pw |-> password_hash]

\* crud.create_user: the row of INSERT INTO User; the last parameter of the
\* statement is the literal "user", whatever role the payload carries.
create_user(username, email, payload_role, password_hash) ==
    [username |-> username, email |-> email, role |-> "user", pw |-> password_hash]

\* -------------------------------------------------------- core/security.py
\* get_password_hash and verify_password: a hash is not the password, and
\* verification succeeds exactly on the hash of the same password.
get_password_hash(password) == <<"bcrypt", password>>
verify_password(plain_password, hashed_password) == hashed_password = <<"bcrypt", plain_password>>

\* -------------------------------------------------------- routers/auth.py
\* POST /api/auth/register: the two pre-checks raise HTTPException(400) inside
\* the try block, where except Exception catches it and answers 500; only the
\* unique index (errno 1062, ValueError) answers 400 (pc "start": by e-mail,
\* pc "body": by username, pc "write": INSERT, pc "reread").
register_user(db, rq) ==
    CASE rq.pc = "start" ->
            IF get_user_by_email(db, rq.email) # {}
            THEN Respond(db, [rq EXCEPT !.touched = TRUE], SERVER_ERROR)
            ELSE Ret(db, [rq EXCEPT !.touched = TRUE, !.pc = "body"])
      [] rq.pc = "body" ->
            IF get_user_by_username(db, rq.name) # {}
            THEN Respond(db, rq, SERVER_ERROR)
            ELSE Ret(db, [rq EXCEPT !.pc = "write"])
      [] rq.pc = "write" ->
            IF get_user_by_email(db, rq.email) # {} \/ get_user_by_username(db, rq.name) # {}
            THEN Respond(db, [rq EXCEPT !.wrote = TRUE], BAD_REQUEST)
            ELSE LET new == db.next_id.users
                     row == create_user(rq.name, rq.email, rq.p_role, get_password_hash(rq.password))
                 IN  Ret([db EXCEPT !.users = Insert(db.users, new, row), !.next_id.users = new + 1],
                         [rq EXCEPT !.pc = "reread", !.wrote = TRUE, !.l_new = new])
      [] rq.pc = "reread" ->
            IF rq.l_new \in DOMAIN db.users
            THEN Respond(db, [rq EXCEPT !.udata = {rq.l_new}], CREATED)
            ELSE Respond(db, rq, SERVER_ERROR)

authenticate_user_NoVerify(db, username, password) ==
    LET found == get_user_by_username(db, username)
    IN  IF found = {} THEN 0 ELSE CHOOSE x \in found : TRUE

\* security.authenticate_user: the user row of the username when the password
\* verifies against its hash, None (0) otherwise; verify_password turns every
\* exception into False, so neither failure raises.
authenticate_user(db, username, password) ==
    LET found == get_user_by_username(db, username)
    IN  IF found = {}
        THEN 0
        ELSE LET u == CHOOSE x \in found : TRUE
             IN  IF ~verify_password(password, db.users[u].pw) THEN 0 ELSE u

\* POST /api/auth/token: security.authenticate_user, then a signed token for
\* the user's id.  l_rec and l_author keep what get_user_by_username found.
login_for_access_token(db, rq) ==
    LET found == get_user_by_username(db, rq.name)
        user == authenticate_user(db, rq.name, rq.password)
        r1 == [rq EXCEPT !.touched = TRUE, !.l_rec = found # {},
                         !.l_author = IF found = {} THEN 0 ELSE CHOOSE x \in found : TRUE]
    IN  IF user = 0
        THEN Respond(db, [r1 EXCEPT !.detail = <<"Incorrect username or password">>,
                                    !.headers = "WWW-Authenticate: Bearer"], UNAUTHORIZED)
        ELSE Respond([db EXCEPT !.tokens = @ \cup {user}], [r1 EXCEPT !.l_new = user], OK)

\* GET /api/auth/users/me
read_users_me(db, rq) ==
    CASE rq.pc = "start" -> get_current_user(db, rq)
      [] rq.pc = "body" -> Respond(db, [rq EXCEPT !.udata = {rq.uid}], OK)

\* ----------------------------------------------------------------- main.py
\* GET /
read_root(db, rq) == Respond(db, rq, OK)

\* GET /health: SELECT 1 on a pooled connection.
health_check(db, rq) == Respond(db, [rq EXCEPT !.touched = TRUE], OK)

\* ------------------------------------------------------------ the server
\* The routes of the application (main.py:101-111 include_router).
Ops ==
    {"update_existing_issue", "update_issue_status_endpoint", "delete_issue_by_id",
     "assign_issue_to_user_endpoint", "assign_issue_to_sprint_endpoint", "create_new_issue",
     "read_issues", "read_issue_by_id", "create_new_project",
     "read_all_projects", "read_project_by_id", "update_existing_project",
     "delete_project_by_id", "read_project_sprints", "read_project_issues",
     "read_sprint_by_id", "read_sprint_issues", "create_new_sprint",
     "update_existing_sprint", "delete_sprint_by_id", "create_new_comment",
     "read_comments_for_issue", "update_existing_comment", "delete_existing_comment",
     "create_new_worklog", "read_worklogs_for_issue", "get_total_hours_for_issue_endpoint",
     "update_existing_worklog", "delete_existing_worklog", "get_total_hours_for_project_endpoint",
     "get_project_hours_by_user_endpoint", "delete_existing_attachment", "read_users",
     "read_user", "update_current_user", "register_user",
     "login_for_access_token", "read_users_me", "read_root",
     "health_check", "upload_new_attachment"}

\* The routes that carry no authentication dependency.
PublicOps == {"register_user", "login_for_access_token", "read_root", "health_check"}

\* The route table: the next repository call of request rq.
Route(db, rq) ==
    CASE rq.op = "update_existing_issue" -> update_existing_issue(db, rq)
      [] rq.op = "update_issue_status_endpoint" -> update_issue_status_endpoint(db, rq)
      [] rq.op = "delete_issue_by_id" -> delete_issue_by_id(db, rq)
      [] rq.op = "assign_issue_to_user_endpoint" -> assign_issue_to_user_endpoint(db, rq)
      [] rq.op = "assign_issue_to_sprint_endpoint" -> assign_issue_to_sprint_endpoint(db, rq)
      [] rq.op = "create_new_issue" -> create_new_issue(db, rq)
      [] rq.op = "read_issues" -> read_issues(db, rq)
      [] rq.op = "read_issue_by_id" -> read_issue_by_id(db, rq)
      [] rq.op = "create_new_project" -> create_new_project(db, rq)
      [] rq.op = "read_all_projects" -> read_all_projects(db, rq)
      [] rq.op = "read_project_by_id" -> read_project_by_id(db, rq)
      [] rq.op = "update_existing_project" -> update_existing_project(db, rq)
      [] rq.op = "delete_project_by_id" -> delete_project_by_id(db, rq)
      [] rq.op = "read_project_sprints" -> read_project_sprints(db, rq)
      [] rq.op = "read_project_issues" -> read_project_issues(db, rq)
      [] rq.op = "read_sprint_by_id" -> read_sprint_by_id(db, rq)
      [] rq.op = "read_sprint_issues" -> read_sprint_issues(db, rq)
      [] rq.op = "create_new_sprint" -> create_new_sprint(db, rq)
      [] rq.op = "update_existing_sprint" -> update_existing_sprint(db, rq)
      [] rq.op = "delete_sprint_by_id" -> delete_sprint_by_id(db, rq)
      [] rq.op = "create_new_comment" -> create_new_comment(db, rq)
      [] rq.op = "read_comments_for_issue" -> read_comments_for_issue(db, rq)
      [] rq.op = "update_existing_comment" -> update_existing_comment(db, rq)
      [] rq.op = "delete_existing_comment" -> delete_existing_comment(db, rq)
      [] rq.op = "create_new_worklog" -> create_new_worklog(db, rq)
      [] rq.op = "read_worklogs_for_issue" -> read_worklogs_for_issue(db, rq)
      [] rq.op = "get_total_hours_for_issue_endpoint" -> get_total_hours_for_issue_endpoint(db, rq)
      [] rq.op = "update_existing_worklog" -> update_existing_worklog(db, rq)
      [] rq.op = "delete_existing_worklog" -> delete_existing_worklog(db, rq)
      [] rq.op = "get_total_hours_for_project_endpoint" -> get_total_hours_for_project_endpoint(db, rq)
      [] rq.op = "get_project_hours_by_user_endpoint" -> get_project_hours_by_user_endpoint(db, rq)
      [] rq.op = "delete_existing_attachment" -> delete_existing_attachment(db, rq)
      [] rq.op = "upload_new_attachment" -> upload_new_attachment(db, rq)
      [] rq.op = "read_users" -> read_users(db, rq)
      [] rq.op = "read_user" -> read_user(db, rq)
      [] rq.op = "update_current_user" -> update_current_user(db, rq)
      [] rq.op = "register_user" -> register_user(db, rq)
      [] rq.op = "login_for_access_token" -> login_for_access_token(db, rq)
      [] rq.op = "read_users_me" -> read_users_me(db, rq)
      [] rq.op = "read_root" -> read_root(db, rq)
      [] rq.op = "health_check" -> health_check(db, rq)

Changed(t1, t2) ==
    {k \in DOMAIN t1 \cup DOMAIN t2 : k \notin DOMAIN t1 \/ k \notin DOMAIN t2 \/ t1[k] # t2[k]}

\* The outcome r of one repository call of rq in db, with the user and issue
\* rows the call changed recorded in the request.
Track(db, rq, r) ==
    Ret(r.db, [r.rq EXCEPT !.w_users = @ \cup Changed(db.users, r.db.users),
                           !.w_issues = @ \cup Changed(db.issues, r.db.issues),
                           !.w_attachments = @ \cup Changed(db.attachments, r.db.attachments)])

\* One repository call of rq.
Step(db, rq) == Track(db, rq, Route(db, rq))

\* A request served from its first repository call to its response.
RECURSIVE Run(_, _)
Run(db, rq) == IF rq.pc = "done" THEN db ELSE LET r == Step(db, rq) IN Run(r.db, r.rq)

Commit(db) ==
    /\ users' = db.users
    /\ projects' = db.projects
    /\ sprints' = db.sprints
    /\ issues' = db.issues
    /\ comments' = db.comments
    /\ worklogs' = db.worklogs
    /\ attachments' = db.attachments
    /\ files' = db.files
    /\ next_id' = db.next_id
    /\ tokens' = db.tokens

store == <<users, projects, sprints, issues, comments, worklogs, attachments, files, next_id, tokens>>

\* The Authorization headers a client can send: none, a token that does not
\* verify (bad signature or expired), or a token issued by the server.
Toks(db) ==
    {NoTok, [kind |-> "bad", uid |-> 0]} \cup {[kind |-> "valid", uid |-> u] : u \in db.tokens}

Ids(op) ==
    IF op \in {"create_new_project", "read_all_projects", "read_users", "update_current_user",
               "register_user", "login_for_access_token", "read_users_me", "read_root", "health_check"}
    THEN {0}
    ELSE IF op = "read_issues" THEN 0..MaxId
    ELSE IF op = "read_user" THEN 1..MaxUser ELSE 1..MaxId

Vals(op) ==
    CASE op = "update_existing_worklog" -> {0, 0 - 10, 4}
      [] op = "create_new_worklog" -> {0, 10}
      [] op = "update_existing_issue" -> {1}
      [] op \in {"assign_issue_to_user_endpoint", "update_existing_project"} -> {0, MaxUser - 1, MaxUser}
      [] op \in {"assign_issue_to_sprint_endpoint", "read_issues"} -> 0..MaxId
      [] op \in {"update_issue_status_endpoint", "create_new_issue", "create_new_comment",
                 "update_existing_comment"} -> {1}
      [] OTHER -> {0}

Faults(op) ==
    CASE op \in {"create_new_sprint", "update_existing_sprint"} -> {"ok", "reject"}
      [] op = "update_issue_status_endpoint" -> {"ok", "reject", "dberror", "guard_dberror"}
      [] op = "assign_issue_to_sprint_endpoint" -> {"ok", "reject", "dberror"}
      [] op = "create_new_issue" -> {"ok", "reject", "dberror", "reread"}
      [] op = "create_new_project" -> {"ok", "reject", "reread"}
      [] op \in {"create_new_comment", "create_new_worklog"} -> {"ok", "reread"}
      [] op = "delete_existing_attachment" -> {"ok", "oserror"}
      [] op = "get_total_hours_for_issue_endpoint" -> {"ok", "total_error"}
      [] op = "upload_new_attachment" -> {"ok", "insert", "oserror", "reread"}
      [] OTHER -> {"ok"}

\* The User objects a client sends in the body of the two worklog routes.
Bodies(op) ==
    IF op \in {"read_worklogs_for_issue", "get_total_hours_for_issue_endpoint"}
    THEN {[uid |-> MaxUser - 1, role |-> "user"], [uid |-> MaxUser - 1, role |-> "admin"]}
    ELSE {[uid |-> 0, role |-> "none"]}

Names(op) == IF op \in {"register_user", "login_for_access_token"} THEN {"u2", "u5"} ELSE {""}
Emails(op) ==
    CASE op = "register_user" -> {"e2", "e5"}
      [] op = "update_current_user" -> {"", "e2", "e6"}
      [] OTHER -> {""}
Passwords(op) ==
    CASE op = "register_user" -> {"p"}
      [] op = "login_for_access_token" -> {"p", "x"}
      [] OTHER -> {""}

\* The requests a client can send to the server in state db.
\* The sets of IssueUpdate fields a client sends to the general update.
Fields(op) ==
    IF op = "update_existing_issue"
    THEN {{}, {"description"}, {"status", "assignee_id", "sprint_id"}, {"description", "status"}}
    ELSE {{}}

\* The reporter_id, owner_id or user_id in the payload of a creation: the
\* client names user 1.
PayloadIds(op) ==
    IF op \in {"create_new_issue", "create_new_project", "create_new_comment", "create_new_worklog"}
    THEN {1} ELSE {0}

\* The role in the payload of a registration or of a profile update: the
\* client asks for admin.
PayloadRoles(op) ==
    IF op \in {"register_user", "update_current_user"} THEN {"admin"} ELSE {"none"}

Requests(db) ==
    UNION {{[NewRq(op, tok, id, val) EXCEPT !.fault = f, !.b_uid = b.uid, !.b_role = b.role,
                                            !.name = n, !.email = e, !.password = pw, !.fields = fs,
                                            !.p_uid = pid, !.p_role = pr] :
               tok \in (IF op \in PublicOps THEN {NoTok} ELSE Toks(db)), id \in Ids(op), val \in Vals(op), f \in Faults(op),
               b \in Bodies(op), n \in Names(op), e \in Emails(op), pw \in Passwords(op), fs \in Fields(op),
               pid \in PayloadIds(op), pr \in PayloadRoles(op)} :
           op \in Ops}

\* The server receives the request that is followed.
Receive ==
    /\ req = Idle
    /\ served < MaxRequests
    /\ \E rq \in Requests(DB) :
          req' = [rq EXCEPT !.stale = (rq.tok.kind = "valid" /\ rq.tok.uid \notin DOMAIN users)]
    /\ served' = served + 1
    /\ UNCHANGED <<store, pvars>>

\* The followed request makes its next repository call.
Serve(r) ==
    /\ LET t == Track(DB, req, r)
       IN  Commit(t.db) /\ req' = t.rq
    /\ UNCHANGED <<served, pvars>>

UpdateExistingIssue ==
    /\ req.op = "update_existing_issue"
    /\ req.pc # "done"
    /\ Serve(update_existing_issue(DB, req))

UpdateIssueStatusEndpoint ==
    /\ req.op = "update_issue_status_endpoint"
    /\ req.pc # "done"
    /\ Serve(update_issue_status_endpoint(DB, req))

DeleteIssueById ==
    /\ req.op = "delete_issue_by_id"
    /\ req.pc # "done"
    /\ Serve(delete_issue_by_id(DB, req))

AssignIssueToUserEndpoint ==
    /\ req.op = "assign_issue_to_user_endpoint"
    /\ req.pc # "done"
    /\ Serve(assign_issue_to_user_endpoint(DB, req))

AssignIssueToSprintEndpoint ==
    /\ req.op = "assign_issue_to_sprint_endpoint"
    /\ req.pc # "done"
    /\ Serve(assign_issue_to_sprint_endpoint(DB, req))

CreateNewIssue ==
    /\ req.op = "create_new_issue"
    /\ req.pc # "done"
    /\ Serve(create_new_issue(DB, req))

ReadIssues ==
    /\ req.op = "read_issues"
    /\ req.pc # "done"
    /\ Serve(read_issues(DB, req))

ReadIssueById ==
    /\ req.op = "read_issue_by_id"
    /\ req.pc # "done"
    /\ Serve(read_issue_by_id(DB, req))

CreateNewProject ==
    /\ req.op = "create_new_project"
    /\ req.pc # "done"
    /\ Serve(create_new_project(DB, req))

ReadAllProjects ==
    /\ req.op = "read_all_projects"
    /\ req.pc # "done"
    /\ Serve(read_all_projects(DB, req))

ReadProjectById ==
    /\ req.op = "read_project_by_id"
    /\ req.pc # "done"
    /\ Serve(read_project_by_id(DB, req))

UpdateExistingProject ==
    /\ req.op = "update_existing_project"
    /\ req.pc # "done"
    /\ Serve(update_existing_project(DB, req))

DeleteProjectById ==
    /\ req.op = "delete_project_by_id"
    /\ req.pc # "done"
    /\ Serve(delete_project_by_id(DB, req))

ReadProjectSprints ==
    /\ req.op = "read_project_sprints"
    /\ req.pc # "done"
    /\ Serve(read_project_sprints(DB, req))

ReadProjectIssues ==
    /\ req.op = "read_project_issues"
    /\ req.pc # "done"
    /\ Serve(read_project_issues(DB, req))

ReadSprintById ==
    /\ req.op = "read_sprint_by_id"
    /\ req.pc # "done"
    /\ Serve(read_sprint_by_id(DB, req))

ReadSprintIssues ==
    /\ req.op = "read_sprint_issues"
    /\ req.pc # "done"
    /\ Serve(read_sprint_issues(DB, req))

CreateNewSprint ==
    /\ req.op = "create_new_sprint"
    /\ req.pc # "done"
    /\ Serve(create_new_sprint(DB, req))

UpdateExistingSprint ==
    /\ req.op = "update_existing_sprint"
    /\ req.pc # "done"
    /\ Serve(update_existing_sprint(DB, req))

DeleteSprintById ==
    /\ req.op = "delete_sprint_by_id"
    /\ req.pc # "done"
    /\ Serve(delete_sprint_by_id(DB, req))

CreateNewComment ==
    /\ req.op = "create_new_comment"
    /\ req.pc # "done"
    /\ Serve(create_new_comment(DB, req))

ReadCommentsForIssue ==
    /\ req.op = "read_comments_for_issue"
    /\ req.pc # "done"
    /\ Serve(read_comments_for_issue(DB, req))

UpdateExistingComment ==
    /\ req.op = "update_existing_comment"
    /\ req.pc # "done"
    /\ Serve(update_existing_comment(DB, req))

DeleteExistingComment ==
    /\ req.op = "delete_existing_comment"
    /\ req.pc # "done"
    /\ Serve(delete_existing_comment(DB, req))

CreateNewWorklog ==
    /\ req.op = "create_new_worklog"
    /\ req.pc # "done"
    /\ Serve(create_new_worklog(DB, req))

ReadWorklogsForIssue ==
    /\ req.op = "read_worklogs_for_issue"
    /\ req.pc # "done"
    /\ Serve(read_worklogs_for_issue(DB, req))

GetTotalHoursForIssueEndpoint ==
    /\ req.op = "get_total_hours_for_issue_endpoint"
    /\ req.pc # "done"
    /\ Serve(get_total_hours_for_issue_endpoint(DB, req))

UpdateExistingWorklog ==
    /\ req.op = "update_existing_worklog"
    /\ req.pc # "done"
    /\ Serve(update_existing_worklog(DB, req))

DeleteExistingWorklog ==
    /\ req.op = "delete_existing_worklog"
    /\ req.pc # "done"
    /\ Serve(delete_existing_worklog(DB, req))

GetTotalHoursForProjectEndpoint ==
    /\ req.op = "get_total_hours_for_project_endpoint"
    /\ req.pc # "done"
    /\ Serve(get_total_hours_for_project_endpoint(DB, req))

GetProjectHoursByUserEndpoint ==
    /\ req.op = "get_project_hours_by_user_endpoint"
    /\ req.pc # "done"
    /\ Serve(get_project_hours_by_user_endpoint(DB, req))

UploadNewAttachment ==
    /\ req.op = "upload_new_attachment"
    /\ req.pc # "done"
    /\ Serve(upload_new_attachment(DB, req))

DeleteExistingAttachment ==
    /\ req.op = "delete_existing_attachment"
    /\ req.pc # "done"
    /\ Serve(delete_existing_attachment(DB, req))

ReadUsers ==
    /\ req.op = "read_users"
    /\ req.pc # "done"
    /\ Serve(read_users(DB, req))

ReadUser ==
    /\ req.op = "read_user"
    /\ req.pc # "done"
    /\ Serve(read_user(DB, req))

UpdateCurrentUser ==
    /\ req.op = "update_current_user"
    /\ req.pc # "done"
    /\ Serve(update_current_user(DB, req))

RegisterUser ==
    /\ req.op = "register_user"
    /\ req.pc # "done"
    /\ Serve(register_user(DB, req))

LoginForAccessToken ==
    /\ req.op = "login_for_access_token"
    /\ req.pc # "done"
    /\ Serve(login_for_access_token(DB, req))

ReadUsersMe ==
    /\ req.op = "read_users_me"
    /\ req.pc # "done"
    /\ Serve(read_users_me(DB, req))

ReadRoot ==
    /\ req.op = "read_root"
    /\ req.pc # "done"
    /\ Serve(read_root(DB, req))

HealthCheck ==
    /\ req.op = "health_check"
    /\ req.pc # "done"
    /\ Serve(health_check(DB, req))


\* The routes that execute data-changing statements or issue tokens.
MutatingOps ==
    {"update_existing_issue", "update_issue_status_endpoint", "delete_issue_by_id",
     "assign_issue_to_user_endpoint", "assign_issue_to_sprint_endpoint", "create_new_issue",
     "create_new_project", "update_existing_project", "delete_project_by_id",
     "create_new_sprint", "update_existing_sprint", "delete_sprint_by_id",
     "create_new_comment", "update_existing_comment", "delete_existing_comment",
     "create_new_worklog", "update_existing_worklog", "delete_existing_worklog",
     "delete_existing_attachment", "upload_new_attachment", "update_current_user", "register_user",
     "login_for_access_token"}

\* A request that changes the store: a valid token, or a public route.
Writers(db) ==
    {r \in Requests(db) : r.op \in MutatingOps /\ (r.tok.kind = "valid" \/ r.op \in PublicOps)}

\* Another worker serves a whole request between two repository calls of the
\* followed one; only a request that changes the store makes a difference.
ConcurrentRequest ==
    /\ req # Idle
    /\ req.pc # "done"
    /\ served < MaxRequests
    /\ \E db \in {Run(DB, rq) : rq \in Writers(DB)} \ {DB} : Commit(db)
    /\ served' = served + 1
    /\ UNCHANGED <<req, pvars>>

\* crud.delete_user called on user u, counted as a request.
DeleteUser ==
    /\ served < MaxRequests
    /\ \E u \in DOMAIN users : ~Referenced(DB, u) /\ Commit(delete_user(DB, u))
    /\ served' = served + 1
    /\ UNCHANGED <<req, pvars>>

\* The response of the followed request has been sent.
Release ==
    /\ req.pc = "done"
    /\ req' = Idle
    /\ UNCHANGED <<store, served, pvars>>

InitStore ==
    /\ users = [u \in 1..(MaxUser - 1) |->
                  [username |-> <<"u1", "u2", "u3", "u4", "u5", "u6">>[u],
                   email |-> <<"e1", "e2", "e3", "e4", "e5", "e6">>[u],
                   role |-> IF u = 1 THEN "admin" ELSE "user", pw |-> get_password_hash("p")]]
    /\ projects = [p \in {1} |-> [owner_id |-> 2]]
    /\ sprints = [s \in {1} |-> [project_id |-> 1]]
    /\ \E a \in {0, MaxUser - 1} :
          issues = [i \in {1} |-> [project_id |-> 1, sprint_id |-> 0, reporter_id |-> 3,
                                   assignee_id |-> a, status |-> 0, description |-> 0]]
    /\ comments = [c \in {1} |-> [issue_id |-> 1, user_id |-> 3, comment_text |-> 0]]
    /\ worklogs = [w \in {1} |-> [issue_id |-> 1, user_id |-> 3, hours_logged |-> 1]]
    /\ attachments = [a \in {1} |-> [issue_id |-> 1, user_id |-> 3, file_path |-> 1]]
    /\ files = {1}
    /\ next_id = [users |-> MaxUser, projects |-> 2, sprints |-> 2, issues |-> 2,
                  comments |-> 2, worklogs |-> 2, attachments |-> 2, files |-> 2]
    /\ tokens = 1..(MaxUser - 1)
    /\ req = Idle
    /\ served = 0

Slots == 1..MaxInFlight

NoRequest == [kind |-> "idle", pc |-> "idle", held |-> 0, err |-> "none", refused |-> FALSE]

\* Spec follows one request through its repository calls with the pool up and
\* a connection to be had for each of them (the fault "reread" apart); the
\* pool itself is the subject of SpecPool.
Init ==
    /\ InitStore
    /\ connection_pool = "pool"
    /\ free = PoolSize
    /\ dropped = 0
    /\ lifespan_pc = "serving"
    /\ inflight = [s \in Slots |-> NoRequest]

Next ==
    \/ Receive
    \/ UpdateExistingIssue
    \/ UpdateIssueStatusEndpoint
    \/ DeleteIssueById
    \/ AssignIssueToUserEndpoint
    \/ AssignIssueToSprintEndpoint
    \/ CreateNewIssue
    \/ ReadIssues
    \/ ReadIssueById
    \/ CreateNewProject
    \/ ReadAllProjects
    \/ ReadProjectById
    \/ UpdateExistingProject
    \/ DeleteProjectById
    \/ ReadProjectSprints
    \/ ReadProjectIssues
    \/ ReadSprintById
    \/ ReadSprintIssues
    \/ CreateNewSprint
    \/ UpdateExistingSprint
    \/ DeleteSprintById
    \/ CreateNewComment
    \/ ReadCommentsForIssue
    \/ UpdateExistingComment
    \/ DeleteExistingComment
    \/ CreateNewWorklog
    \/ ReadWorklogsForIssue
    \/ GetTotalHoursForIssueEndpoint
    \/ UpdateExistingWorklog
    \/ DeleteExistingWorklog
    \/ GetTotalHoursForProjectEndpoint
    \/ GetProjectHoursByUserEndpoint
    \/ DeleteExistingAttachment
    \/ UploadNewAttachment
    \/ ReadUsers
    \/ ReadUser
    \/ UpdateCurrentUser
    \/ RegisterUser
    \/ LoginForAccessToken
    \/ ReadUsersMe
    \/ ReadRoot
    \/ HealthCheck
    \/ ConcurrentRequest
    \/ DeleteUser
    \/ Release

Spec == Init /\ [][Next]_vars

\* ------------------------------------------------------------ properties
\* The followed request has been answered.
Done == req.pc = "done"

IssueWriteOps ==
    {"update_existing_issue", "update_issue_status_endpoint", "assign_issue_to_user_endpoint",
     "assign_issue_to_sprint_endpoint", "delete_issue_by_id"}

IssueAssignOps == {"assign_issue_to_user_endpoint", "assign_issue_to_sprint_endpoint"}

IssueReadOps == {"read_issue_by_id", "read_issues", "read_project_issues", "read_sprint_issues"}

RecordUpdateOps == {"update_existing_comment", "update_existing_worklog"}

RecordDeleteOps == {"delete_existing_comment", "delete_existing_worklog", "delete_existing_attachment"}

\* The principal of the followed request is an authenticated non-admin who is
\* neither owner of the project its guard read, nor reporter or assignee of
\* the issue its guard read.
Unrelated == req.role = "user" /\ req.uid \notin {req.l_owner, req.l_rep, req.l_asg}

\* C1: every route other than register, token, health and root answers a
\* request without a valid Bearer token with 401 and calls the repository for
\* it not once.  (The code violates this on the two worklog by-issue routes.)
C1_TokenRequired ==
    (Done /\ req.op \notin PublicOps /\ req.tok.kind # "valid")
        => (req.status = UNAUTHORIZED /\ ~req.touched)

\* C2: when the guard of an issue-mutating route (general update, status
\* change, assign-user, assign-sprint, delete) has read the issue and its
\* project, and the principal is not admin, not the project's owner, not the
\* issue's reporter and not its assignee, the answer is 403 and the request
\* has changed no issue row.
C2_UnrelatedForbidden ==
    (Done /\ req.op \in IssueWriteOps /\ req.l_issue /\ req.l_proj /\ Unrelated)
        => (req.status = FORBIDDEN /\ ~req.wrote /\ req.w_issues = {})

C2_Witness ==
    /\ Done /\ req.op = "update_issue_status_endpoint"
    /\ req.l_issue /\ req.l_proj /\ Unrelated
    /\ req.status = FORBIDDEN
    /\ req.id \in DOMAIN issues

\* C3 as stated: the issue's reporter or assignee is never answered 403 by
\* any of the five issue-mutating routes.
C3_ReporterAssigneeNeverForbidden ==
    (Done /\ req.op \in IssueWriteOps /\ req.l_issue /\ req.uid \in {req.l_rep, req.l_asg})
        => req.status # FORBIDDEN

\* C3: the issue's reporter or assignee is never answered 403 by general
\* update, status change or delete; assign-user and assign-sprint answer 403
\* exactly to a principal who is neither admin nor owner of the issue's
\* project, reporter and assignee included.
C3_ReporterAssigneePermitted ==
    /\ (Done /\ req.op \in IssueWriteOps \ IssueAssignOps /\ req.l_issue
             /\ req.uid \in {req.l_rep, req.l_asg})
          => req.status # FORBIDDEN
    /\ (Done /\ req.op \in IssueAssignOps /\ req.l_issue /\ req.l_proj)
          => (req.status = FORBIDDEN <=> (req.role # "admin" /\ req.uid # req.l_owner))

C3_Witness ==
    /\ Done /\ req.op = "update_issue_status_endpoint"
    /\ req.l_issue /\ req.l_proj
    /\ req.role = "user" /\ req.uid # req.l_owner /\ req.uid # req.l_rep /\ req.uid = req.l_asg
    /\ req.status = OK /\ req.w_issues = {req.id}

\* C4: a route that reads issues (GET /api/issues/{id}, GET /api/issues,
\* GET /api/projects/{id}/issues, GET /api/sprints/{id}/issues) answers 403 to
\* a principal who is neither admin nor owner of the project it read.  (The
\* code violates this on GET /api/projects/{id}/issues.)
C4_IssueReadOwnerOnly ==
    (Done /\ req.op \in IssueReadOps /\ req.l_proj /\ req.role = "user" /\ req.uid # req.l_owner)
        => (req.status = FORBIDDEN /\ req.data = {})

\* C5: reading a project (GET /api/projects/{id}, GET /api/projects/{id}/sprints)
\* answers 403 to a principal who is neither admin nor the project's owner, and
\* the project list carries no project of another owner to a non-admin.  (The
\* code violates this on all three routes.)
C5_ProjectReadOwnerOnly ==
    /\ (Done /\ req.op \in {"read_project_by_id", "read_project_sprints"} /\ req.l_proj
             /\ req.role = "user" /\ req.uid # req.l_owner)
          => req.status = FORBIDDEN
    /\ (Done /\ req.op = "read_all_projects" /\ req.role = "user")
          => \A p \in req.data \cap DOMAIN projects : projects[p].owner_id = req.uid

\* The owner of the project of issue i in the current store, 0 if there is none.
OwnerOfIssue(i) ==
    IF HasIssue(DB, i) THEN projects[issues[i].project_id].owner_id ELSE 0

\* C6 as stated: updating a comment or worklog is permitted to the owner of
\* the parent issue's project as deleting it is: the owner is not answered 403.
C6_OwnerMayUpdate ==
    (Done /\ req.op \in RecordUpdateOps /\ req.l_rec /\ req.uid = OwnerOfIssue(req.l_iid))
        => req.status # FORBIDDEN

\* C6: deleting a comment, worklog or attachment answers 403 exactly to a
\* principal who is not admin, not the record's author and not the owner of
\* the parent issue's project; updating (PUT) a comment or worklog answers 403
\* exactly to a principal who is neither admin nor the record's author, the
\* project owner included.
C6_MutateOrDeletePermitted ==
    /\ (Done /\ req.op \in RecordDeleteOps /\ req.l_rec)
          => (req.status = FORBIDDEN <=>
                (req.role # "admin" /\ req.uid # req.l_author /\ req.uid # req.l_owner))
    /\ (Done /\ req.op \in RecordUpdateOps /\ req.l_rec)
          => (req.status = FORBIDDEN <=> (req.role # "admin" /\ req.uid # req.l_author))

C6_Witness ==
    /\ Done /\ req.op = "delete_existing_comment" /\ req.l_rec /\ req.l_proj
    /\ req.role = "user" /\ req.uid # req.l_author /\ req.uid = req.l_owner
    /\ req.status = NO_CONTENT /\ req.id \notin DOMAIN comments

\* C7: a principal with role admin is never answered 403.  (The code violates
\* this in read_sprint_by_id when the sprint's project row is missing.)
C7_AdminNeverForbidden ==
    (Done /\ req.tok.kind = "valid" /\ req.role = "admin") => req.status # FORBIDDEN

\* C8: a non-admin principal is answered 403 by GET /api/users/{id} for an id
\* other than their own and by GET /api/users/, no response carries them
\* another user's record, and PUT /api/users/me changes no user row but the
\* one of the token's user.
C8_OwnUserRecordOnly ==
    /\ (Done /\ req.op = "read_user" /\ req.role = "user" /\ req.id # req.uid)
          => (req.status = FORBIDDEN /\ req.udata = {})
    /\ (Done /\ req.op = "read_users" /\ req.role = "user")
          => (req.status = FORBIDDEN /\ req.udata = {})
    /\ (req.role = "user" /\ req.tok.kind = "valid") => req.udata \subseteq {req.uid}
    /\ req.op = "update_current_user" => req.w_users \subseteq {req.tok.uid}

C8_Witness ==
    /\ Done /\ req.op = "read_user" /\ req.role = "user" /\ req.id # req.uid
    /\ req.id \in DOMAIN users
    /\ req.status = FORBIDDEN

\* C9: a request received after the user row of its token was removed is
\* answered 401.  (The code violates this on the two worklog by-issue routes,
\* which never look at the token.)
C9_RemovedUserUnauthenticated ==
    (Done /\ req.stale) => req.status = UNAUTHORIZED

\* C10: a registration whose username or e-mail address another user row
\* holds is answered 400 and creates no user row.  (The code answers 500.)
C10_DuplicateConflict ==
    (Done /\ req.op = "register_user"
          /\ \E u \in DOMAIN users \ {req.l_new} :
                users[u].email = req.email \/ users[u].username = req.name)
        => (req.status = BAD_REQUEST /\ req.w_users = {})

C12_UploadRollback ==
    (Done /\ req.op = "upload_new_attachment" /\ req.l_file # 0 /\ req.status >= BAD_REQUEST)
        => /\ req.l_file \notin files
           /\ \A a \in DOMAIN attachments : attachments[a].file_path # req.l_file

get_db_connection_Blocking(pool, queue) ==
    IF pool = "None" THEN {"ConnectionError"}
    ELSE IF queue = 0 THEN {}
    ELSE {"conn", "not_connected"}

get_db_connection(pool, queue) ==
    IF pool = "None" THEN {"ConnectionError"}
    ELSE IF queue = 0 THEN {"ConnectionError"}
    ELSE {"conn", "not_connected"}

\* lifespan, startup: init_db_pool builds the pool and tries one connection.
\* The connection is closed when it is connected; when it is not, or when
\* building the pool raises, connection_pool is None again (lifespan logs
\* the ConnectionError and the application serves all the same).
InitDbPool ==
    /\ lifespan_pc = "startup"
    /\ \E o \in {"ok", "not_connected", "error"} :
          /\ connection_pool' = IF o = "ok" THEN "pool" ELSE "None"
          /\ free' = IF o = "not_connected" THEN PoolSize - 1 ELSE IF o = "ok" THEN PoolSize ELSE 0
          /\ dropped' = IF o = "not_connected" THEN 1 ELSE 0
    /\ lifespan_pc' = "serving"
    /\ UNCHANGED <<store, req, served, inflight>>

\* lifespan, shutdown: close_db_pool resets the global; the connections in
\* use stay with their holders.
CloseDbPool ==
    /\ lifespan_pc = "serving"
    /\ connection_pool' = "None"
    /\ lifespan_pc' = "shutdown"
    /\ UNCHANGED <<store, req, served, free, dropped, inflight>>

\* A request arrives and is about to ask for its first connection.
Arrive(s) ==
    /\ lifespan_pc = "serving"
    /\ inflight[s].kind = "idle"
    /\ \E k \in {"execute_query", "create"} :
          inflight' = [inflight EXCEPT ![s] = [NoRequest EXCEPT !.kind = k, !.pc = "get"]]
    /\ UNCHANGED <<store, req, served, connection_pool, free, dropped, lifespan_pc>>

\* conn = get_db_connection(), of the request itself (pc "get") or of the
\* execute_query under get_*_by_id in a creation (pc "reread_get").  A
\* connection that reports not connected has left the queue and is referred
\* to by nothing once ConnectionError is raised.
GetDbConnection(s) ==
    /\ inflight[s].pc \in {"get", "reread_get"}
    /\ \E o \in get_db_connection(connection_pool, free) :
          /\ free' = IF o = "ConnectionError" THEN free ELSE free - 1
          /\ dropped' = IF o = "not_connected" THEN dropped + 1 ELSE dropped
          /\ inflight' = [inflight EXCEPT ![s] =
                IF o = "conn"
                THEN [@ EXCEPT !.held = @ + 1,
                               !.pc = IF inflight[s].pc = "get" THEN "execute" ELSE "reread_execute"]
                ELSE [@ EXCEPT !.err = "ConnectionError",
                               !.refused = (o = "ConnectionError"),
                               !.pc = "finally"]]
    /\ UNCHANGED <<store, req, served, connection_pool, lifespan_pc>>

\* cursor.execute (and commit): it returns or raises mysql.connector.Error.
\* After the commit of a creation comes the re-read of the row.
Execute(s) ==
    /\ inflight[s].pc \in {"execute", "reread_execute"}
    /\ \E o \in {"ok", "Error"} :
          inflight' = [inflight EXCEPT ![s] =
                [@ EXCEPT !.err = IF o = "ok" THEN @ ELSE "Error",
                          !.pc = IF inflight[s].pc = "reread_execute" THEN "reread_finally"
                                 ELSE IF o = "ok" /\ inflight[s].kind = "create" THEN "reread_get"
                                 ELSE "finally"]]
    /\ UNCHANGED <<store, req, served, connection_pool, free, dropped, lifespan_pc>>

\* finally: if conn: conn.close(), which puts the connection back into the
\* queue: of the execute_query under the re-read (pc "reread_finally"), then
\* of the request's own connection (pc "finally").
CloseConnection(s) ==
    /\ inflight[s].pc \in {"reread_finally", "finally"}
    /\ LET closes == IF inflight[s].pc = "reread_finally" \/ inflight[s].held > 0 THEN 1 ELSE 0
       IN  /\ free' = free + closes
           /\ inflight' = [inflight EXCEPT ![s] =
                 [@ EXCEPT !.held = @ - closes,
                           !.pc = IF inflight[s].pc = "reread_finally" THEN "finally" ELSE "done"]]
    /\ UNCHANGED <<store, req, served, connection_pool, dropped, lifespan_pc>>

\* The response is sent and the request is over.
Answer(s) ==
    /\ inflight[s].pc = "done"
    /\ inflight' = [inflight EXCEPT ![s] = NoRequest]
    /\ UNCHANGED <<store, req, served, connection_pool, free, dropped, lifespan_pc>>

InitPool ==
    /\ InitStore
    /\ connection_pool = "None"
    /\ free = 0
    /\ dropped = 0
    /\ lifespan_pc = "startup"
    /\ inflight = [s \in Slots |-> NoRequest]

Proceed(s) == GetDbConnection(s) \/ Execute(s) \/ CloseConnection(s) \/ Answer(s)

NextPool ==
    \/ InitDbPool
    \/ CloseDbPool
    \/ \E s \in Slots : Arrive(s)
    \/ \E s \in Slots : GetDbConnection(s)
    \/ \E s \in Slots : Execute(s)
    \/ \E s \in Slots : CloseConnection(s)
    \/ \E s \in Slots : Answer(s)

SpecPool == InitPool /\ [][NextPool]_vars

\* The code of a request in flight runs on: no call of db_utils waits for
\* another request (get_connection takes from the queue without blocking)
\* and a statement handed to the server returns or raises.
SpecPoolLive == SpecPool /\ \A s \in Slots : WF_vars(Proceed(s))

RECURSIVE Held(_)
Held(S) == IF S = {} THEN 0 ELSE LET s == CHOOSE x \in S : TRUE IN inflight[s].held + Held(S \ {s})

\* Connections out of the queue: held by the requests in flight, or dropped.
Borrowed == Held(Slots) + dropped

\* C15: connections never leak: whenever no request is in flight, no
\* connection of the pool in use is borrowed.
\* (get_db_connection drops a connection that reports not connected without
\* closing it; init_db_pool does the same with the pool it then discards.)
C15_NoLeak ==
    (connection_pool = "pool" /\ \A s \in Slots : inflight[s].kind = "idle") => Borrowed = 0

\* C16: a request that asks for a connection when the pool is None or its
\* queue is empty is refused with ConnectionError and holds no connection of
\* that call, and every request in flight comes to its response.
C16_FailFast ==
    /\ [](\A s \in Slots : inflight[s].refused => /\ inflight[s].err = "ConnectionError"
                                                  /\ inflight[s].pc \in {"finally", "done"})
    /\ \A s \in Slots : (inflight[s].kind # "idle") ~> (inflight[s].kind = "idle")

C16_Witness ==
    \E s \in Slots :
        /\ inflight[s].refused
        /\ inflight[s].pc = "finally"
        /\ connection_pool = "pool"
        /\ free = 0
        /\ dropped = 0
        /\ Held(Slots \ {s}) = PoolSize

CreateOps == {"create_new_issue", "create_new_project", "create_new_comment", "create_new_worklog"}

\* The ids of the rows of the entity that route op creates.
CreatedIn(op) ==
    CASE op = "create_new_issue" -> DOMAIN issues
      [] op = "create_new_project" -> DOMAIN projects
      [] op = "create_new_comment" -> DOMAIN comments
      [] op = "create_new_worklog" -> DOMAIN worklogs

\* C14: when the creation of an Issue, Project, Comment or Worklog is
\* answered with an error, the table holds no row that the request created.
\* (The code commits before the re-read and leaves the row when that fails.)
C14_CreateAtomic ==
    (Done /\ req.op \in CreateOps /\ req.status >= BAD_REQUEST)
        => req.l_new \notin CreatedIn(req.op)

PartialUpdateOps == {"update_existing_issue", "update_existing_project", "update_existing_sprint",
                     "update_existing_worklog", "update_current_user"}

\* The table, the row and the allow-list of the partial update rq.
UpdatedTable(rq) ==
    CASE rq.op = "update_existing_issue" -> "issues"
      [] rq.op = "update_existing_project" -> "projects"
      [] rq.op = "update_existing_sprint" -> "sprints"
      [] rq.op = "update_existing_worklog" -> "worklogs"
      [] rq.op = "update_current_user" -> "users"

UpdatedRow(rq) == IF rq.op = "update_current_user" THEN rq.uid ELSE rq.id

AllowList(rq) ==
    CASE rq.op = "update_existing_issue" -> IssueAllowedColumns
      [] rq.op = "update_existing_project" -> ProjectAllowedColumns
      [] rq.op = "update_existing_sprint" -> SprintAllowedColumns
      [] rq.op = "update_existing_worklog" -> WorklogAllowedColumns
      [] rq.op = "update_current_user" -> UserAllowedColumns

Tables == {"users", "projects", "sprints", "issues", "comments", "worklogs", "attachments"}

\* C17: a step of a partial update of a User, Project, Sprint, Issue or
\* Worklog adds and removes no row and changes no column but those of the
\* updated row that are on the entity's allow-list and in the payload; and an
\* Issue update whose payload has only fields outside the allow-list
\* (status, assignee_id, sprint_id) is not answered with an error on their
\* account: it fails only for want of authentication, permission or the issue.
C17_AllowListOnly ==
    /\ [][(req.op \in PartialUpdateOps /\ req' # req) =>
            \A t \in Tables :
                /\ DOMAIN DB'[t] = DOMAIN DB[t]
                /\ \A k \in DOMAIN DB[t] : \A c \in DOMAIN DB[t][k] :
                      DB'[t][k][c] # DB[t][k][c]
                          => /\ t = UpdatedTable(req)
                             /\ k = UpdatedRow(req)
                             /\ c \in AllowList(req) \cap DOMAIN Payload(req)]_vars
    /\ []((Done /\ req.op = "update_existing_issue" /\ req.fields # {}
                /\ req.fields \cap IssueAllowedColumns = {} /\ req.status >= BAD_REQUEST)
             => \/ req.status \in {UNAUTHORIZED, FORBIDDEN, NOT_FOUND}
                \/ ~HasIssue(DB, req.id))

C17_Witness ==
    /\ Done
    /\ req.op = "update_existing_issue"
    /\ req.fields = {"description", "status"}
    /\ req.status = OK
    /\ req.wrote
    /\ HasIssue(DB, req.id)
    /\ issues[req.id].description = req.val
    /\ issues[req.id].status # req.val

\* C18: GET /api/issues with neither project_id nor sprint_id executes no
\* issue list query and is answered 400 (401 when the caller does not
\* authenticate); and an issue list query that is executed is filtered by one
\* project_id or one sprint_id, after the read guard has let the caller into
\* that project, or into the project of that sprint.
C18_FilteredListOnly ==
    (Done /\ req.op = "read_issues") =>
        /\ (req.id = 0 /\ req.val = 0)
              => /\ req.query = <<>>
                 /\ req.status = IF req.role = "none" THEN UNAUTHORIZED ELSE BAD_REQUEST
        /\ req.query # <<>>
              => /\ req.l_proj
                 /\ ~ReadAccessDenied(req.role, req.uid, req.l_owner)
                 /\ req.query[2] # 0
                 /\ \/ req.query = <<"project_id", req.l_pid>>
                    \/ /\ req.query[1] = "sprint_id"
                       /\ req.query[2] \in DOMAIN sprints
                             => sprints[req.query[2]].project_id = req.l_pid

C18_Witness ==
    /\ Done
    /\ req.op = "read_issues"
    /\ req.id = 0
    /\ req.val = 0
    /\ req.role # "none"
    /\ req.status = BAD_REQUEST
    /\ req.query = <<>>

\* C19: no response carries the text of a database error: an error that no
\* business rule accounts for is answered 500 with a generic message.
\* (mysql_exception_handler puts exc.msg into the body, and create_issue,
\* update_issue_status and assign_issue_to_sprint turn every database error
\* into a ValueError that the route answers 400 with its text.)
C19_NoInternalErrorText ==
    Done => /\ \A i \in DOMAIN req.detail : req.detail[i] # ErrMsg
            /\ (req.fault \in {"dberror", "guard_dberror"} /\ req.status >= BAD_REQUEST)
                  => req.status \in {UNAUTHORIZED, FORBIDDEN, NOT_FOUND, SERVER_ERROR}

\* The routes whose guard reads a child row (an Issue, a Sprint) and then the
\* Project it refers to.
ParentGuardOps ==
    {"update_existing_issue", "update_issue_status_endpoint", "delete_issue_by_id",
     "assign_issue_to_user_endpoint", "assign_issue_to_sprint_endpoint", "read_issue_by_id",
     "read_sprint_by_id", "read_sprint_issues", "update_existing_sprint", "delete_sprint_by_id",
     "create_new_comment", "read_comments_for_issue", "upload_new_attachment",
     "create_new_worklog", "read_worklogs_for_issue", "get_total_hours_for_issue_endpoint"}

\* C20: a guard that has read the child row and finds no row for the
\* parent Project ends the request with 500, in every guard alike, and the
\* request executes no data-changing statement.
\* (The guards of the issue reads, the assignments and the worklogs answer
\* 404, the guard of the sprints 403.)
C20_MissingParentIsInconsistency ==
    (Done /\ req.op \in ParentGuardOps /\ (req.l_issue \/ req.l_rec) /\ ~req.l_proj)
        => /\ req.status = SERVER_ERROR
           /\ ~req.wrote

EntityDeleteOps ==
    {"delete_project_by_id", "delete_sprint_by_id", "delete_issue_by_id",
     "delete_existing_comment", "delete_existing_worklog", "delete_existing_attachment"}

EntityUpdateOps == PartialUpdateOps \cup {"update_existing_comment"}

\* The table of the entity that the delete or update rq is about.
MutatedTable(rq) ==
    CASE rq.op \in {"delete_project_by_id", "update_existing_project"} -> "projects"
      [] rq.op \in {"delete_sprint_by_id", "update_existing_sprint"} -> "sprints"
      [] rq.op \in {"delete_issue_by_id", "update_existing_issue"} -> "issues"
      [] rq.op \in {"delete_existing_comment", "update_existing_comment"} -> "comments"
      [] rq.op \in {"delete_existing_worklog", "update_existing_worklog"} -> "worklogs"
      [] rq.op = "delete_existing_attachment" -> "attachments"
      [] rq.op = "update_current_user" -> "users"

\* C21: a delete or update that passed its authorization check, executed
\* its statement and found the entity gone (removed by another request in
\* between) is not answered 500 (404 is the answer for a missing entity).
\* (The routes raise the 404 inside the try whose except Exception answers
\* 500, or return the missing row to the response model.)
C21_MissingEntityNotFound ==
    (Done /\ req.op \in EntityDeleteOps \cup EntityUpdateOps /\ req.wrote /\ req.fault = "ok"
          /\ UpdatedRow(req) \notin DOMAIN DB[MutatedTable(req)])
        => req.status # SERVER_ERROR

\* C22: the total_hours_logged that the total-hours endpoint reports for
\* an Issue is the sum of hours_logged over the Worklog rows of that Issue at
\* the time of the read; a sum that could not be computed is not reported
\* as a total.
\* (get_total_hours_for_issue returns 0.0 when its query raises, and both
\* the endpoint and the detail view report it with status 200.)
C22_TotalIsSum ==
    (Done /\ req.op = "get_total_hours_for_issue_endpoint" /\ req.status = OK)
        => req.l_total = SumHours(DB, WorklogsOf(DB, req.id))

\* The table and the column in which the creation op records who created
\* the row.
CreatorColumn(op) ==
    CASE op = "create_new_issue" -> <<"issues", "reporter_id">>
      [] op = "create_new_project" -> <<"projects", "owner_id">>
      [] op = "create_new_comment" -> <<"comments", "user_id">>
      [] op = "create_new_worklog" -> <<"worklogs", "user_id">>
      [] op = "upload_new_attachment" -> <<"attachments", "user_id">>

\* C23: the step of a creation that inserts the row records the user id
\* of the authenticated principal (the user of the request's token) as the
\* Issue's reporter, the Project's owner or the Comment's, Worklog's or
\* Attachment's author, whatever id the payload carries.
C23_CreatorIsPrincipal ==
    [][(req.op \in CreateOps \cup {"upload_new_attachment"} /\ req'.l_new \notin {0, req.l_new})
          => /\ req.tok.kind = "valid"
             /\ req'.l_new \in DOMAIN DB'[CreatorColumn(req.op)[1]]
             /\ DB'[CreatorColumn(req.op)[1]][req'.l_new][CreatorColumn(req.op)[2]] = req.tok.uid]_vars

C23_Witness ==
    /\ Done
    /\ req.op = "create_new_issue"
    /\ req.status = CREATED
    /\ req.p_uid # 0
    /\ req.p_uid # req.tok.uid
    /\ req.l_new \in DOMAIN issues
    /\ issues[req.l_new].reporter_id = req.tok.uid

\* C24: no stored Worklog has hours_logged <= 0.
\* (Validation accepts every hours_logged > 0 and then rounds it to two
\* decimals: 0.004 is accepted and stored as 0.0.)
C24_StoredHoursPositive ==
    \A w \in DOMAIN worklogs : worklogs[w].hours_logged > 0

\* C25: a request holds at most one pooled connection at a time.
\* (create_issue, create_project, create_comment and create_worklog keep the
\* connection of the CALL while get_*_by_id borrows a second one through
\* execute_query; with every connection of the pool held by such a request
\* the re-read of each is refused after its row is committed.)
C25_OneConnectionPerRequest ==
    \A s \in Slots : inflight[s].held <= 1

\* C26: no operation raises a user's privileges: a registration stores role
\* "user" whatever role its payload carries, no step changes the role, the
\* username or the password hash of an existing User row, and so only the
\* user who is admin in the initial state is ever admin.
C26_NoEscalation ==
    /\ [](\A u \in DOMAIN users : users[u].role = "admin" => u = 1)
    /\ [][\A u \in DOMAIN users' :
            IF u \in DOMAIN users
            THEN /\ users'[u].role = users[u].role
                 /\ users'[u].username = users[u].username
                 /\ users'[u].pw = users[u].pw
            ELSE users'[u].role = "user"]_vars

C26_Witness ==
    /\ Done /\ req.op = "register_user" /\ req.p_role = "admin" /\ req.status = CREATED
    /\ req.l_new \in DOMAIN users /\ users[req.l_new].role = "user"

\* C27: a write to a Project row is applied only for a principal who, in the
\* state the write is applied to, is admin or the owner of that project.
\* (The route reads the project and checks the owner in one step and runs the
\* UPDATE or DELETE in a later one, without a transaction or a condition on
\* owner_id in the statement; a change of owner in between is not seen.)
C27_AuthorizedAtCommit ==
    [][(/\ req.op \in {"update_existing_project", "delete_project_by_id"}
        /\ req.pc = "write" /\ req'.pc # "write"
        /\ projects' # projects)
          => \/ req.role = "admin"
             \/ req.id \in DOMAIN projects /\ projects[req.id].owner_id = req.uid]_vars

\* C28: of two registrations with the same username or e-mail address that
\* both pass the pre-checks one creates the row and the other is answered 400
\* by the unique index, no two User rows ever share a username or an e-mail
\* address, and a duplicate that arrives after the winner has finished (and
\* is stopped by a pre-check) has the same outcome.  (The loser of the race
\* is answered 400, the late duplicate 500: see C10.)
C28_RaceLoserAsLateDuplicate ==
    /\ \A u, v \in DOMAIN users :
          (users[u].username = users[v].username \/ users[u].email = users[v].email) => u = v
    /\ (Done /\ req.op = "register_user" /\ req.l_new = 0) => req.status = BAD_REQUEST

\* C29: the issue detail view is a snapshot: the total_hours_logged of a
\* response equals the sum of hours_logged of the worklogs listed in that
\* response, also when worklogs are created or deleted while the view's
\* reads run.  (The list and the total are read by two statements on two
\* connections, with other requests' commits in between.)
C29_DetailViewSnapshot ==
    (Done /\ req.op = "read_issue_by_id" /\ req.status = OK /\ req.fault = "ok")
        => req.l_total = req.l_hours

\* C30: in every state the file_path of each Attachment row names a file of
\* the upload directory.  (An upload whose INSERT has committed and whose
\* re-read fails removes the saved file and leaves the row: see C12.)
C30_AttachmentFileExists ==
    \A a \in DOMAIN attachments : attachments[a].file_path \in files

====
